---- MODULE Spec2Model ----
(***************************************************************************)
(* Darktide Scoreboard Tracker: the scoreboard-file parser (parser.js),    *)
(* the ingestion coordinator (ingestFiles) and the sql.js-backed store     *)
(* (db.js), modelled as one state machine.                                 *)
(*                                                                         *)
(* A text line is modelled after trim() and split(';'): a sequence of      *)
(* string fields.  The empty line is <<"">>.  JavaScript arrays are        *)
(* 0-based, sequences here are 1-based: parts[k] in the code is            *)
(* parts[k + 1] here.                                                      *)
(***************************************************************************)
EXTENDS Integers, Sequences, FiniteSets, TLC

\* ------------------------------------------------------------------ bounds
\* Longest source (number of file entries offered to one ingestion).
MaxFiles == 3
\* Number of ingestFiles runs started in one behaviour.
MaxRuns == 2
\* Number of times the page is closed and the store reloaded.
MaxReloads == 1
\* Number of player-settings calls in one behaviour.
MaxSettingsCalls == 2
\* The batch size the model runs with (the program's is 200).
BatchBound == 2
\* Number of snapshot writes that fail in one behaviour.
MaxSaveFails == 1
\* Longest file of the parser inputs, in lines.
MaxLines == 4
\* Longest file of the hierarchy inputs, in #row lines.
MaxRowLines == 3

\* ------------------------------------------------------- JavaScript values
\* Number.NaN, the result of a failed parseInt / parseFloat.
NaN == -999
\* The value of an array element that does not exist (parts[1] of a
\* one-field line).
Undefined == "<undefined>"
\* JavaScript null / SQL NULL.
Null == "<null>"

\* parseInt(s, 10) and parseFloat(s) on the field strings of the model.
NumTab ==
  [s \in {"0", "1", "2", "3", "4", "5", "7", "9", "1300", "-1"} |->
     CASE s = "0" -> 0 [] s = "1" -> 1 [] s = "2" -> 2 [] s = "3" -> 3
       [] s = "4" -> 4 [] s = "5" -> 5 [] s = "7" -> 7 [] s = "9" -> 9
       [] s = "1300" -> 1300 [] s = "-1" -> -1]

ParseInt(s) == IF s \in DOMAIN NumTab THEN NumTab[s] ELSE NaN

ParseFloat(s) == IF s \in DOMAIN NumTab THEN NumTab[s] ELSE NaN

\* line.startsWith('#'): the strings of the model that begin with '#'.
StartsWithHash(s) == s \in {"#mission", "#players", "#group", "#row"}

\* UUID_PATTERN.test(text): "u1", "u2" stand for strings of the shape
\* 8-4-4-4-12 hex digits; every other token of the model does not match.
isUuid(text) == text \in {"u1", "u2"}

\* stripColorCodes: removes {#color(..)} / {#reset()} markup and trims.
stripColorCodes(text) ==
  CASE text = "{#color(1)}Grunt{#reset()} [BOT]" -> "Grunt [BOT]"
    [] OTHER -> text

\* generateBotIdentifier: strip colours, lower-case, drop "[bot]", spaces
\* to underscores, trim underscores, prefix "bot_".
generateBotIdentifier(rawBotName) ==
  CASE stripColorCodes(rawBotName) = "Grunt [BOT]" -> "bot_grunt"
    [] stripColorCodes(rawBotName) = "Grunt" -> "bot_grunt"
    [] stripColorCodes(rawBotName) = "Ogryn Bot" -> "bot_ogryn_bot"
    [] OTHER -> "bot_other"

\* cleanDisplayName: "<snake_case>" is humanised, other "<..>" lose the
\* brackets, everything else is unchanged.
cleanDisplayName(name) ==
  CASE name = "<damage_dealt>" -> "Damage Dealt"
    [] name = "<kills>" -> "kills"
    [] OTHER -> name

\* childIds.split(':') on the childIds strings of the model.
SplitColon(s) ==
  CASE s = "X:Y" -> <<"X", "Y">>
    [] s = "A:B" -> <<"A", "B">>
    [] s = "X:Y:Z" -> <<"X", "Y", "Z">>
    [] OTHER -> <<s>>

\* childIds.includes(':')
IncludesColon(s) == Len(SplitColon(s)) > 1

\* MISSION_NAMES[game.missionId] || game.missionId
MissionName(missionId) ==
  CASE missionId = "cm_habs" -> "Hab Dreyko"
    [] OTHER -> missionId

\* ---------------------------------------------------------- ordered maps
\* A JavaScript object with string keys is a sequence of records that
\* carry their key in the field id, in the order Object.entries lists them.
RECURSIVE IndexOf(_, _, _)
IndexOf(seq, id, k) ==
  IF k > Len(seq) THEN 0
  ELSE IF seq[k].id = id THEN k ELSE IndexOf(seq, id, k + 1)

HasKey(seq, id) == IndexOf(seq, id, 1) # 0

Lookup(seq, id) == seq[IndexOf(seq, id, 1)]

\* The key is an array index ("0", "1", ...): Object.entries lists such
\* keys first, in ascending numeric order, before the other keys.
IsArrayIndex(id) == id \in DOMAIN NumTab /\ NumTab[id] >= 0

\* Does key a stand before key b in the enumeration order of an object,
\* when b is a key added after a?
KeyBefore(a, b) ==
  IF IsArrayIndex(b) THEN IsArrayIndex(a) /\ NumTab[a] < NumTab[b]
  ELSE TRUE

\* obj[rec.id] = rec : replaces the value in place, or adds the key: at
\* the end, or among the array-index keys when it is one.
Put(seq, rec) ==
  IF HasKey(seq, rec.id)
  THEN [seq EXCEPT ![IndexOf(seq, rec.id, 1)] = rec]
  ELSE LET n == Cardinality({k \in 1..Len(seq) : KeyBefore(seq[k].id, rec.id)})
       IN SubSeq(seq, 1, n) \o <<rec>> \o SubSeq(seq, n + 1, Len(seq))

\* set.add(x) on an insertion-ordered Set held as a sequence.
AddOnce(seq, x) ==
  IF \E k \in 1..Len(seq) : seq[k] = x THEN seq ELSE Append(seq, x)

Range(seq) == {seq[k] : k \in 1..Len(seq)}

\* ------------------------------------------------------------------ parser
\* The draft record parseLuaContent starts from.
NewGame(filename, timestamp) ==
  [filename |-> filename, timestamp |-> timestamp,
   missionId |-> "", difficulty |-> 0, modifier |-> "", result |-> "",
   durationSeconds |-> 0,
   players |-> <<>>, propertyMetadata |-> <<>>, scores |-> <<>>,
   discoveredBots |-> <<>>, discoveredExtraPlayers |-> <<>>]

\* parseMissionLine(line, game)
parseMissionLine(parts, game) ==
  IF Len(parts) < 3 THEN game
  ELSE LET rawModifier == IF Len(parts) > 3 THEN parts[4] ELSE ""
       IN [game EXCEPT
             !.missionId = parts[2],
             !.difficulty = ParseInt(parts[3]),
             !.modifier = IF rawModifier \in {"nil", "default", ""}
                          THEN "" ELSE rawModifier,
             !.result = IF Len(parts) > 4 THEN parts[5] ELSE "unknown",
             !.durationSeconds = IF Len(parts) > 5 THEN ParseInt(parts[6])
                                 ELSE 0]

\* The for loop of parsePlayersSection: i iterations done, lineIndex = idx.
RECURSIVE PlayersLoop(_, _, _, _, _, _)
PlayersLoop(lines, idx, i, playerCount, game, known) ==
  IF playerCount = NaN \/ i >= playerCount
  THEN [idx |-> idx, game |-> game, known |-> known]
  ELSE IF idx + 1 > Len(lines)
  THEN [idx |-> idx + 1, game |-> game, known |-> known]
  ELSE LET playerParts == lines[idx + 1]
       IN IF Len(playerParts) < 2
          THEN PlayersLoop(lines, idx + 1, i + 1, playerCount, game, known)
          ELSE LET slot == ParseInt(playerParts[1])
                   playerId == playerParts[2]
                   playerName == IF Len(playerParts) > 2 THEN playerParts[3]
                                 ELSE "Unknown"
               IN PlayersLoop(lines, idx + 1, i + 1, playerCount,
                    [game EXCEPT !.players =
                                   Append(@, <<slot, playerId, playerName>>)],
                    known \cup {playerId})

\* parsePlayersSection(lines, lineIndex, game, knownPlayerIds)
parsePlayersSection(lines, idx, game, known) ==
  LET parts == lines[idx]
  IN IF Len(parts) < 2
     THEN [idx |-> idx, game |-> game, known |-> known]
     ELSE PlayersLoop(lines, idx, 0, ParseInt(parts[2]), game, known)

\* A data-line loop that does not step back when a directive ends it.
RECURSIVE RowLoopNoBackup(_, _, _, _, _, _, _)
RowLoopNoBackup(lines, idx, i, dataLineCount, rowId, game, known) ==
  IF dataLineCount = NaN \/ i >= dataLineCount
  THEN [idx |-> idx, game |-> game]
  ELSE IF idx + 1 > Len(lines)
  THEN [idx |-> idx + 1, game |-> game]
  ELSE LET dataParts == lines[idx + 1]
       IN IF dataParts = <<"">> \/ StartsWithHash(dataParts[1])
          THEN [idx |-> idx + 1, game |-> game]
          ELSE LET raw == dataParts[1]
                   value == IF Len(dataParts) > 1 THEN ParseFloat(dataParts[2])
                            ELSE NaN
                   pid == IF isUuid(raw) THEN raw
                          ELSE generateBotIdentifier(raw)
               IN RowLoopNoBackup(lines, idx + 1, i + 1, dataLineCount, rowId,
                    IF value = NaN THEN game
                    ELSE [game EXCEPT
                            !.discoveredExtraPlayers =
                               IF isUuid(raw) /\ raw \notin known
                               THEN AddOnce(@, raw) ELSE @,
                            !.discoveredBots =
                               IF isUuid(raw) THEN @
                               ELSE Put(@, [id |-> pid,
                                            name |-> stripColorCodes(raw)]),
                            !.scores = Append(@, <<rowId, pid, value>>)],
                    known)

\* The data-line loop of parseRowSection.
RECURSIVE RowLoop(_, _, _, _, _, _, _)
RowLoop(lines, idx, i, dataLineCount, rowId, game, known) ==
  IF dataLineCount = NaN \/ i >= dataLineCount
  THEN [idx |-> idx, game |-> game]
  ELSE IF idx + 1 > Len(lines)
  THEN [idx |-> idx + 1, game |-> game]
  ELSE LET dataParts == lines[idx + 1]
       IN IF dataParts = <<"">> \/ StartsWithHash(dataParts[1])
          THEN [idx |-> idx, game |-> game]
          ELSE LET raw == dataParts[1]
                   value == IF Len(dataParts) > 1 THEN ParseFloat(dataParts[2])
                            ELSE NaN
               IN IF value = NaN
                  THEN RowLoop(lines, idx + 1, i + 1, dataLineCount, rowId,
                               game, known)
                  ELSE IF isUuid(raw)
                  THEN RowLoop(lines, idx + 1, i + 1, dataLineCount, rowId,
                         [game EXCEPT
                            !.discoveredExtraPlayers =
                               IF raw \in known THEN @ ELSE AddOnce(@, raw),
                            !.scores = Append(@, <<rowId, raw, value>>)],
                         known)
                  ELSE RowLoop(lines, idx + 1, i + 1, dataLineCount, rowId,
                         [game EXCEPT
                            !.discoveredBots =
                               Put(@, [id |-> generateBotIdentifier(raw),
                                       name |-> stripColorCodes(raw)]),
                            !.scores = Append(@,
                               <<rowId, generateBotIdentifier(raw), value>>)],
                         known)

\* parseRowSection(lines, lineIndex, line, game, knownPlayerIds,
\*                 currentGroupId, currentGroupName)
parseRowSection(lines, idx, parts, game, known, gid, gname) ==
  IF Len(parts) < 2 THEN [idx |-> idx, game |-> game]
  ELSE
    LET rowId == parts[2]
        rowOrder == IF Len(parts) > 2 THEN ParseInt(parts[3]) ELSE 0
        dataLineCount == IF Len(parts) > 3 THEN ParseInt(parts[4]) ELSE 0
        displayName == IF Len(parts) > 4 THEN cleanDisplayName(parts[5])
                       ELSE rowId
        sortDirection == IF Len(parts) > 5 THEN parts[6] ELSE "ASC"
        flagField == IF Len(parts) > 7 THEN parts[8] ELSE "nil"
        pluginId == IF Len(parts) > 9 THEN parts[10] ELSE ""
        parentIdRaw == IF Len(parts) > 10 THEN parts[11] ELSE "nil"
        childIdsRaw == IF Len(parts) > 12 THEN parts[13] ELSE "nil"
        parentId == IF parentIdRaw = "nil" THEN Null ELSE parentIdRaw
        childIds == IF childIdsRaw = "nil" THEN Null ELSE childIdsRaw
        meta == [id |-> rowId, displayName |-> displayName,
                 groupId |-> gid, groupName |-> gname,
                 sortDirection |-> sortDirection,
                 isSummary |-> (childIds # Null /\ IncludesColon(childIds)),
                 parentId |-> parentId, childIds |-> childIds,
                 rowOrder |-> rowOrder, visible |-> (flagField # "false"),
                 pluginId |-> pluginId]
    IN RowLoop(lines, idx, 0, dataLineCount, rowId,
               [game EXCEPT !.propertyMetadata = Put(@, meta)], known)

\* ------------------------------------------------- hierarchy post-pass
\* metadata.childIds is truthy: neither null nor the empty string.
HasChildIds(m) == m.childIds # Null /\ m.childIds # ""

\* The positions of the properties whose childIds list names childId: the
\* entries pushed to candidates[childId], in enumeration order.
CandidateParents(pm, childId) ==
  {k \in 1..Len(pm) :
     HasChildIds(pm[k]) /\ childId \in Range(SplitColon(pm[k].childIds))}

\* parentOptions.sort((a, b) => a[1] - b[1])[0]: the shortest childIds
\* list; the sort is stable, so the first enumerated among equals.
BestCandidate(pm, childId) ==
  CHOOSE k \in CandidateParents(pm, childId) :
    \A j \in CandidateParents(pm, childId) :
      \/ Len(SplitColon(pm[k].childIds)) < Len(SplitColon(pm[j].childIds))
      \/ /\ Len(SplitColon(pm[k].childIds)) = Len(SplitColon(pm[j].childIds))
         /\ k <= j

\* First half of linkOrphanedChildren (lines 94-109).
LinkByChildIds(pm) ==
  [k \in 1..Len(pm) |->
     IF pm[k].parentId = Null /\ CandidateParents(pm, pm[k].id) # {}
     THEN [pm[k] EXCEPT !.parentId = pm[BestCandidate(pm, pm[k].id)].id]
     ELSE pm[k]]

\* The positions that write pluginParents[g]; the last write stays.
PluginParentPositions(pm, g) ==
  {k \in 1..Len(pm) :
     pm[k].pluginId = g /\ pm[k].visible /\ pm[k].parentId = Null}

Max(S) == CHOOSE x \in S : \A y \in S : y <= x

\* Second half of linkOrphanedChildren (lines 111-122).
LinkByPlugin(pm) ==
  [k \in 1..Len(pm) |->
     IF /\ pm[k].parentId = Null
        /\ ~pm[k].visible
        /\ pm[k].pluginId # ""
        /\ PluginParentPositions(pm, pm[k].pluginId) # {}
        /\ pm[Max(PluginParentPositions(pm, pm[k].pluginId))].id # pm[k].id
     THEN [pm[k] EXCEPT
             !.parentId = pm[Max(PluginParentPositions(pm, pm[k].pluginId))].id]
     ELSE pm[k]]

\* linkOrphanedChildren(game), on game.propertyMetadata.
linkOrphanedChildren(pm) == LinkByPlugin(LinkByChildIds(pm))

\* expandChildDisplayName on the display names of the model: a one-word
\* child name that is a whole word of the parent's name becomes the
\* parent's name without the siblings' names; every other name is kept.
expandChildDisplayName(childDisplay, parentDisplay, siblingDisplays) ==
  CASE childDisplay = "Melee" /\ parentDisplay = "Melee / Ranged Kills" ->
         IF "Ranged" \in siblingDisplays THEN "Melee Kills"
         ELSE "Melee Ranged Kills"
    [] OTHER -> childDisplay

\* expandChildDisplayNames(game): the loop over the properties, k done.
RECURSIVE ExpandLoop(_, _, _)
ExpandLoop(raw, pm, k) ==
  IF k > Len(pm) THEN pm
  ELSE IF pm[k].parentId \notin {Null, ""} /\ HasKey(pm, pm[k].parentId)
  THEN ExpandLoop(raw,
         [pm EXCEPT ![k].displayName =
            expandChildDisplayName(raw[k].displayName,
              Lookup(pm, pm[k].parentId).displayName,
              {raw[j].displayName :
                 j \in {i \in 1..Len(pm) :
                          i # k /\ pm[i].parentId = pm[k].parentId}})],
         k + 1)
  ELSE ExpandLoop(raw, pm, k + 1)

expandChildDisplayNames(pm) == ExpandLoop(pm, pm, 1)

\* ------------------------------------------------------ parseLuaContent
\* filename.replace(/\.lua$/i, '') followed by parseInt(.., 10), on the
\* file names of the model.  parseInt reads the longest decimal prefix.
FilenameTimestamp(filename) ==
  CASE filename = "1.lua" -> 1
    [] filename = "2.lua" -> 2
    [] filename = "3.lua" -> 3
    [] filename = "4.lua" -> 4
    [] filename = "1a.lua" -> 1
    [] filename = "1.txt" -> 1
    [] OTHER -> NaN

\* The while loop of parseLuaContent (lines 161-188).
RECURSIVE ParseLoop(_, _, _, _, _, _)
ParseLoop(lines, idx, game, known, gid, gname) ==
  IF idx > Len(lines) THEN game
  ELSE
    LET parts == lines[idx]
    IN CASE parts = <<"">> ->
              ParseLoop(lines, idx + 1, game, known, gid, gname)
         [] parts[1] = "#mission" ->
              ParseLoop(lines, idx + 1, parseMissionLine(parts, game),
                        known, gid, gname)
         [] parts[1] = "#players" ->
              LET r == parsePlayersSection(lines, idx, game, known)
              IN ParseLoop(lines, r.idx + 1, r.game, r.known, gid, gname)
         [] parts[1] = "#group" ->
              LET id == IF Len(parts) > 1 THEN parts[2] ELSE Undefined
              IN ParseLoop(lines, idx + 1, game, known, id,
                           IF Len(parts) > 2 THEN parts[3] ELSE id)
         [] parts[1] = "#row" ->
              LET r == parseRowSection(lines, idx, parts, game, known,
                                       gid, gname)
              IN ParseLoop(lines, r.idx + 1, r.game, known, gid, gname)
         [] OTHER -> ParseLoop(lines, idx + 1, game, known, gid, gname)

DEFAULT_GROUP_ID == "row_resource_score"
DEFAULT_GROUP_NAME == "Resource & Teamwork"

\* What parseLuaContent returns for a non-numeric file name (null).
NullGame == [filename |-> Null]

IsNullGame(game) == game.filename = Null

\* parseLuaContent(filename, content): null for a non-numeric file name,
\* else the draft record after the hierarchy post-pass.
parseLuaContent(filename, lines) ==
  IF FilenameTimestamp(filename) = NaN THEN NullGame
  ELSE LET game == ParseLoop(lines, 1,
                     NewGame(filename, FilenameTimestamp(filename)),
                     {}, DEFAULT_GROUP_ID, DEFAULT_GROUP_NAME)
       IN [game EXCEPT !.propertyMetadata =
             expandChildDisplayNames(linkOrphanedChildren(@))]

\* ------------------------------------------------------------- the store
\* The sql.js database: one field per table of SCHEMA_SQL, rows as
\* records, and the AUTOINCREMENT high-water mark of games.id.
EmptyDb ==
  [games |-> {}, seq |-> 0, players |-> {}, game_players |-> {},
   properties |-> {}, scores |-> {}, player_settings |-> {},
   app_settings |-> {}]

\* INSERT INTO games (...): the UNIQUE(filename) and NOT NULL constraints
\* make the statement fail; NaN is bound as NULL.
\* A games table without the UNIQUE constraint on filename.
GameInsertFailsNoUnique(db, game) ==
  \/ game.difficulty = NaN
  \/ game.durationSeconds = NaN

GameInsertFails(db, game) ==
  \/ \E g \in db.games : g.filename = game.filename
  \/ game.difficulty = NaN
  \/ game.durationSeconds = NaN

GameRow(gameId, game) ==
  [id |-> gameId, filename |-> game.filename, timestamp |-> game.timestamp,
   mission_id |-> game.missionId, mission_name |-> MissionName(game.missionId),
   difficulty |-> game.difficulty, modifier |-> game.modifier,
   result |-> game.result, duration_seconds |-> game.durationSeconds]

\* playerRows of insertGame: roster, then bots, then extra players.
PlayerRows(game) ==
  [k \in 1..Len(game.players) |-> [id |-> game.players[k][2], is_bot |-> 0]]
  \o [k \in 1..Len(game.discoveredBots) |->
        [id |-> game.discoveredBots[k].id, is_bot |-> 1]]
  \o [k \in 1..Len(game.discoveredExtraPlayers) |->
        [id |-> game.discoveredExtraPlayers[k], is_bot |-> 0]]

\* gamePlayerRows of insertGame.
GamePlayerRows(gameId, game) ==
  [k \in 1..Len(game.players) |->
     [game_id |-> gameId, player_id |-> game.players[k][2],
      slot |-> game.players[k][1], name |-> game.players[k][3],
      quitter |-> 0]]
  \o [k \in 1..Len(game.discoveredBots) |->
        [game_id |-> gameId, player_id |-> game.discoveredBots[k].id,
         slot |-> -1, name |-> game.discoveredBots[k].name, quitter |-> 0]]
  \o [k \in 1..Len(game.discoveredExtraPlayers) |->
        [game_id |-> gameId, player_id |-> game.discoveredExtraPlayers[k],
         slot |-> -1, name |-> "Unknown", quitter |-> 1]]

\* INSERT OR IGNORE INTO players: a row whose id exists is skipped.
RECURSIVE InsertPlayers(_, _, _)
InsertPlayers(table, rows, k) ==
  IF k > Len(rows) THEN table
  ELSE InsertPlayers(
         IF \E r \in table : r.id = rows[k].id THEN table
         ELSE table \cup {rows[k]},
         rows, k + 1)

\* INSERT OR IGNORE INTO game_players: a row whose (game_id, player_id)
\* exists, or whose slot is NULL (NaN), is skipped.
RECURSIVE InsertGamePlayers(_, _, _)
InsertGamePlayers(table, rows, k) ==
  IF k > Len(rows) THEN table
  ELSE InsertGamePlayers(
         IF \/ rows[k].slot = NaN
            \/ \E r \in table : /\ r.game_id = rows[k].game_id
                                /\ r.player_id = rows[k].player_id
         THEN table ELSE table \cup {rows[k]},
         rows, k + 1)

\* sql.js refuses to bind a value of type undefined: the statement throws
\* before it writes anything.
PropertyBindFails(game) ==
  \E k \in 1..Len(game.propertyMetadata) :
    \/ game.propertyMetadata[k].groupId = Undefined
    \/ game.propertyMetadata[k].groupName = Undefined

PropertyRow(m) ==
  [id |-> m.id, display_name |-> m.displayName, group_id |-> m.groupId,
   group_name |-> m.groupName, sort_direction |-> m.sortDirection,
   is_summary |-> IF m.isSummary THEN 1 ELSE 0,
   parent_id |-> m.parentId, child_ids |-> m.childIds,
   row_order |-> IF m.rowOrder = NaN THEN 0 ELSE m.rowOrder,
   visible |-> IF m.visible THEN 1 ELSE 0]

\* INSERT OR REPLACE INTO properties: the row with the same id is replaced.
RECURSIVE UpsertProperties(_, _, _)
UpsertProperties(table, pm, k) ==
  IF k > Len(pm) THEN table
  ELSE UpsertProperties(
         {r \in table : r.id # pm[k].id} \cup {PropertyRow(pm[k])},
         pm, k + 1)

\* INSERT OR IGNORE INTO scores, all chunks: a row whose
\* (game_id, player_id, property_id) exists is skipped.
RECURSIVE InsertScores(_, _, _, _)
InsertScores(table, gameId, scores, k) ==
  IF k > Len(scores) THEN table
  ELSE InsertScores(
         IF \E r \in table : /\ r.game_id = gameId
                             /\ r.player_id = scores[k][2]
                             /\ r.property_id = scores[k][1]
         THEN table
         ELSE table \cup {[game_id |-> gameId, player_id |-> scores[k][2],
                           property_id |-> scores[k][1],
                           value |-> scores[k][3]]},
         gameId, scores, k + 1)

\* The store after the statements of insertGame up to the property upsert
\* (exclusive): the Game row, the players and the roster.
AfterRoster(db, game) ==
  [db EXCEPT
     !.games = @ \cup {GameRow(db.seq + 1, game)},
     !.seq = @ + 1,
     !.players = InsertPlayers(@, PlayerRows(game), 1),
     !.game_players =
        InsertGamePlayers(@, GamePlayerRows(db.seq + 1, game), 1)]

\* insertGame(game): the statements run one after the other; the first one
\* that throws ends the function and leaves what the earlier ones wrote.
insertGame(db, game) ==
  IF GameInsertFails(db, game) THEN [db |-> db, threw |-> TRUE]
  ELSE IF PropertyBindFails(game)
  THEN [db |-> AfterRoster(db, game), threw |-> TRUE]
  ELSE [db |-> [AfterRoster(db, game) EXCEPT
                  !.properties =
                     UpsertProperties(@, game.propertyMetadata, 1),
                  !.scores = InsertScores(@, db.seq + 1, game.scores, 1)],
        threw |-> FALSE]

\* A backfill that drops the placeholder rows instead of renaming them.
BackfillChoicesDropping(table) ==
  {{r \in table : r.name # "Unknown"}}

\* backfillUnknownPlayerNames(): one UPDATE; the sub-select reads the
\* table as it was before the statement, and LIMIT 1 without ORDER BY may
\* return any of the known names.
BackfillChoices(table) ==
  LET Named(pid) == {r.name : r \in {x \in table : x.player_id = pid
                                                  /\ x.name # "Unknown"}}
      Todo == {r \in table : r.name = "Unknown" /\ Named(r.player_id) # {}}
      Pids == {r.player_id : r \in Todo}
  IN {(table \ Todo)
        \cup {[r EXCEPT !.name = pick[r.player_id]] : r \in Todo} :
      pick \in {f \in [Pids -> {r.name : r \in table}] :
                  \A p \in Pids : f[p] \in Named(p)}}

\* ---------------------------------------------------- player settings
Falsy(v) == v = Null \/ v = ""

\* savePlayerSettingsDB(playerId, customName, color), the SQL statement.
savePlayerSettingsDB(db, playerId, customName, color) ==
  IF Falsy(customName) /\ Falsy(color)
  THEN [db EXCEPT !.player_settings = {r \in @ : r.player_id # playerId}]
  ELSE IF \E r \in db.player_settings : r.player_id = playerId
  THEN [db EXCEPT !.player_settings =
          {IF r.player_id = playerId
           THEN [r EXCEPT !.custom_name = customName, !.color = color]
           ELSE r : r \in @}]
  ELSE [db EXCEPT !.player_settings =
          @ \cup {[player_id |-> playerId, custom_name |-> customName,
                   color |-> color, is_main |-> 0]}]

\* UPDATE player_settings SET is_main = 0 WHERE is_main = 1
ClearMain(table) == {[r EXCEPT !.is_main = 0] : r \in table}

\* saveMainPlayer without its first statement, the UPDATE that clears
\* is_main.
saveMainPlayerNoClear(db, playerId) ==
  IF \E r \in db.player_settings : r.player_id = playerId
  THEN [db EXCEPT !.player_settings =
          {IF r.player_id = playerId THEN [r EXCEPT !.is_main = 1]
           ELSE r : r \in @}]
  ELSE [db EXCEPT !.player_settings =
          @ \cup {[player_id |-> playerId, custom_name |-> Null,
                   color |-> Null, is_main |-> 1]}]

\* saveMainPlayer(playerId), the two SQL statements.
saveMainPlayer(db, playerId) ==
  LET cleared == ClearMain(db.player_settings)
  IN IF \E r \in cleared : r.player_id = playerId
     THEN [db EXCEPT !.player_settings =
             {IF r.player_id = playerId THEN [r EXCEPT !.is_main = 1]
              ELSE r : r \in cleared}]
     ELSE [db EXCEPT !.player_settings =
             cleared \cup {[player_id |-> playerId, custom_name |-> Null,
                            color |-> Null, is_main |-> 1]}]

\* The first query of autoSetupDefaultPlayer.
HasTracked(db) ==
  \E r \in db.player_settings : r.custom_name # Null \/ r.color # Null

\* The second query: roster appearances per human player; with LIMIT 1
\* any of the players with the highest count may be returned.
Appearances(db, pid) ==
  Cardinality({r \in db.game_players : r.player_id = pid})

TopHumans(db) ==
  LET Humans == {r.player_id : r \in {x \in db.game_players :
                    \E p \in db.players : p.id = x.player_id /\ p.is_bot = 0}}
  IN {h \in Humans :
        \A o \in Humans : Appearances(db, o) <= Appearances(db, h)}

\* saveAppSetting(key, value), the SQL statement: the row of the key is
\* inserted or its value replaced.
saveAppSetting(db, key, value) ==
  [db EXCEPT !.app_settings =
     {r \in @ : r.key # key} \cup {[key |-> key, value |-> value]}]

\* A reset that deletes the rows of the match tables and keeps the
\* database.
clearDatabaseKeepingSettings(db) ==
  [db EXCEPT !.games = {}, !.players = {}, !.game_players = {},
             !.properties = {}, !.scores = {}]

\* clearDatabase() up to its await: _db is closed and replaced by a new
\* database on which SCHEMA_SQL has run.
clearDatabase(db) == EmptyDb

\* ------------------------------------------------------------ snapshot
\* The value stored under IDB_KEY is the exported store, or a record
\* [kind, was]: "absent" (no value), "garbage" (bytes that are not an
\* SQLite file) or "damaged" (the file header and the schema page of the
\* exported store was, with damaged data pages).
BlobKind(blob) == IF "kind" \in DOMAIN blob THEN blob.kind ELSE "valid"

\* initDatabase(): no value gives a new database; otherwise the bytes are
\* opened and SCHEMA_SQL and the migrations run on them, and an exception
\* gives a new database.  SQLite reads the header and the schema for
\* CREATE ... IF NOT EXISTS, not the data pages.
initDatabase(blob) ==
  CASE BlobKind(blob) = "valid" -> blob
    [] BlobKind(blob) = "absent" -> EmptyDb
    [] BlobKind(blob) = "garbage" -> EmptyDb
    [] BlobKind(blob) = "damaged" -> blob.was

\* -------------------------------------------------------------- queries
LONG_GAME_THRESHOLD_SECONDS == 1200

\* The WHERE clause getGames builds from params (lines 425-462).  A
\* startTime / endTime that is null is the empty set, one that is given
\* the set of that time.
MatchesFilters(g, params) ==
  /\ CASE params.resultFilter = "won" -> g.result = "won"
       [] params.resultFilter = "won_and_long_lost" ->
            \/ g.result = "won"
            \/ /\ g.result = "lost"
               /\ g.duration_seconds > LONG_GAME_THRESHOLD_SECONDS
       [] params.resultFilter = "lost" -> g.result = "lost"
       [] OTHER -> TRUE
  /\ params.difficulties # {} => g.difficulty \in params.difficulties
  /\ params.missions # {} => g.mission_id \in params.missions
  /\ params.modifiers # {} => g.modifier \in params.modifiers
  /\ \A t \in params.startTime : g.timestamp >= t
  /\ \A t \in params.endTime : g.timestamp <= t

\* The orders in which SELECT ... ORDER BY g.timestamp ASC / DESC may
\* return the rows S: rows of one timestamp come in any order.
RECURSIVE OrderedByTimestamp(_, _)
OrderedByTimestamp(S, desc) ==
  IF S = {} THEN {<<>>}
  ELSE UNION {{<<x>> \o t : t \in OrderedByTimestamp(S \ {x}, desc)} :
                x \in {y \in S : \A z \in S :
                                   IF desc THEN y.timestamp >= z.timestamp
                                   ELSE y.timestamp <= z.timestamp}}

\* The first n elements of s.
Limit(s, n) == SubSeq(s, 1, IF n < Len(s) THEN n ELSE Len(s))

\* The "last N" branch with the rows taken from the other end: ORDER BY
\* g.timestamp ASC LIMIT ?.
GameSelectionsOldest(db, params) ==
  LET matching == {g \in db.games : MatchesFilters(g, params)}
  IN IF params.lastNGames > 0
     THEN {Range(Limit(s, params.lastNGames)) :
             s \in OrderedByTimestamp(matching, FALSE)}
     ELSE {matching}

\* The games getGames selects (lines 464-483): in "last N" mode the ids
\* of ORDER BY g.timestamp DESC LIMIT ?, else every matching game.
GameSelections(db, params) ==
  LET matching == {g \in db.games : MatchesFilters(g, params)}
  IN IF params.lastNGames > 0
     THEN {Range(Limit(s, params.lastNGames)) :
             s \in OrderedByTimestamp(matching, TRUE)}
     ELSE {matching}

\* The scores query without its property_id condition.
ScoresOfAnyProperty(db, gameId, propertyIds) ==
  {[player_id |-> r.player_id, property_id |-> r.property_id,
    value |-> r.value] : r \in {x \in db.scores : x.game_id = gameId}}

\* scoresByGame[g.id] (lines 507-518): the scores of the game for the
\* requested properties.
ScoresOf(db, gameId, propertyIds) ==
  {[player_id |-> r.player_id, property_id |-> r.property_id,
    value |-> r.value] :
     r \in {x \in db.scores : /\ x.game_id = gameId
                              /\ x.property_id \in propertyIds}}

\* One element of the array getGames returns (lines 520-532).
GameView(db, g, params) ==
  [id |-> g.id, timestamp |-> g.timestamp, missionId |-> g.mission_id,
   missionName |-> g.mission_name, difficulty |-> g.difficulty,
   modifier |-> g.modifier, result |-> g.result,
   durationSeconds |-> g.duration_seconds,
   players |-> {<<r.player_id, r.name>> :
                  r \in {x \in db.game_players : x.game_id = g.id}},
   scores |-> ScoresOf(db, g.id, params.propertyIds),
   quitters |-> {r.player_id :
                   r \in {x \in db.game_players :
                            x.game_id = g.id /\ x.quitter # 0}}]

\* getGames(params): the arrays the call may return (one, up to the
\* order of games of equal timestamp).
getGames(db, params) ==
  IF params.propertyIds = {} THEN {<<>>}
  ELSE UNION {{[k \in 1..Len(s) |-> GameView(db, s[k], params)] :
                 s \in OrderedByTimestamp(sel, FALSE)} :
              sel \in GameSelections(db, params)}

\* The orders in which SELECT ... FROM properties ORDER BY row_order may
\* return the rows S.
RECURSIVE OrderedByRowOrder(_)
OrderedByRowOrder(S) ==
  IF S = {} THEN {<<>>}
  ELSE UNION {{<<x>> \o t : t \in OrderedByRowOrder(S \ {x})} :
                x \in {y \in S : \A z \in S : y.row_order <= z.row_order}}

\* prop.parentId || null
ParentKey(row) == IF row.parent_id \in {Null, ""} THEN Null ELSE row.parent_id

RECURSIVE SelectChildren(_, _)
\* childrenOf[parentId]: the rows with that parent, in query order.
SelectChildren(rows, parentId) ==
  IF rows = <<>> THEN <<>>
  ELSE (IF ParentKey(Head(rows)) = parentId THEN <<Head(rows)>> ELSE <<>>)
       \o SelectChildren(Tail(rows), parentId)

RECURSIVE walkTree(_, _)
RECURSIVE WalkEach(_, _)
\* The loop of walkTree over the children of one parent.
WalkEach(rows, children) ==
  IF children = <<>> THEN <<>>
  ELSE <<Head(children)>> \o walkTree(rows, Head(children).id)
       \o WalkEach(rows, Tail(children))

\* walkTree(parentId) of getProperties (lines 338-345).
walkTree(rows, parentId) == WalkEach(rows, SelectChildren(rows, parentId))

\* The property record getProperties puts into its category.
PropertyView(row) ==
  [id |-> row.id, displayName |-> row.display_name,
   sortDirection |-> row.sort_direction, isSummary |-> row.is_summary # 0,
   parentId |-> row.parent_id, rowOrder |-> row.row_order]

RECURSIVE GroupLoop(_, _)
\* The loop over ordered (lines 348-359): a category is created at its
\* first property, with minOrder the rowOrder of that property.
GroupLoop(ordered, groups) ==
  IF ordered = <<>> THEN groups
  ELSE LET prop == Head(ordered)
           at == {k \in 1..Len(groups) : groups[k].groupId = prop.group_id}
       IN IF at = {}
          THEN GroupLoop(Tail(ordered),
                 Append(groups,
                   [groupId |-> prop.group_id, groupName |-> prop.group_name,
                    minOrder |-> prop.row_order,
                    properties |-> <<PropertyView(prop)>>]))
          ELSE GroupLoop(Tail(ordered),
                 [k \in 1..Len(groups) |->
                    IF k \in at
                    THEN [groups[k] EXCEPT
                            !.properties = Append(@, PropertyView(prop))]
                    ELSE groups[k]])

RECURSIVE InsertByMinOrder(_, _)
InsertByMinOrder(sorted, g) ==
  IF sorted = <<>> THEN <<g>>
  ELSE IF g.minOrder < Head(sorted).minOrder THEN <<g>> \o sorted
  ELSE <<Head(sorted)>> \o InsertByMinOrder(Tail(sorted), g)

RECURSIVE SortByMinOrder(_)
\* Object.values(groups).sort((a, b) => a.minOrder - b.minOrder): stable.
SortByMinOrder(groups) ==
  IF groups = <<>> THEN <<>>
  ELSE InsertByMinOrder(SortByMinOrder(SubSeq(groups, 1, Len(groups) - 1)),
                        groups[Len(groups)])

\* getProperties(): the arrays the call may return (one, up to the order
\* of rows of equal row_order).
getProperties(db) ==
  {LET sorted == SortByMinOrder(GroupLoop(walkTree(rows, Null), <<>>))
   IN [k \in 1..Len(sorted) |->
         [groupId |-> sorted[k].groupId, groupName |-> sorted[k].groupName,
          properties |-> sorted[k].properties]] :
     rows \in OrderedByRowOrder(db.properties)}

\* -------------------------------------------------------------- sources
\* The scoreboard files of the model.
\* A match with a one-player roster and a bot.
LinesA ==
  << <<"#mission", "cm_habs", "2", "nil", "won", "7">>,
     <<"#players", "1">>,
     <<"0", "u1", "Alice">>,
     <<"#row", "dmg", "1", "2", "<damage_dealt>", "DESC">>,
     <<"u1", "5">>,
     <<"{#color(1)}Grunt{#reset()} [BOT]", "3">> >>

\* A match in which u1 has a score but is not in the roster.
LinesB ==
  << <<"#mission", "cm_habs", "3", "default", "lost", "5">>,
     <<"#players", "1">>,
     <<"1", "u2", "Bob">>,
     <<"#row", "dmg", "1", "2", "<damage_dealt>", "DESC">>,
     <<"u2", "5">>,
     <<"u1", "7">> >>

\* A match with a #group line that has no fields before its row.
LinesC ==
  << <<"#mission", "cm_habs", "1">>,
     <<"#players", "1">>,
     <<"0", "u2", "Bob">>,
     <<"#group">>,
     <<"#row", "kills", "2", "1", "<kills>", "DESC">>,
     <<"u1", "3">> >>

\* A match whose rows declare a hierarchy: A names B as its parent, and B
\* lists A and itself as children.
LinesD ==
  << <<"#mission", "cm_habs", "1", "nil", "won">>,
     <<"#row", "A", "1", "0", "A", "ASC", "", "nil", "", "p1", "B">>,
     <<"#row", "B", "2", "0", "B", "ASC", "", "nil", "", "p1", "nil", "",
       "A:B">> >>

\* A long lost match with two categories: in category g1 the child K has
\* a lower rowOrder than its parent P.
LinesE ==
  << <<"#mission", "cm_habs", "4", "nil", "lost", "1300">>,
     <<"#players", "1">>,
     <<"0", "u1", "Alice">>,
     <<"#group", "g1", "G1">>,
     <<"#row", "P", "5", "1", "P", "DESC">>,
     <<"u1", "4">>,
     <<"#row", "K", "1", "1", "K", "ASC", "", "nil", "", "p1", "P">>,
     <<"u1", "2">>,
     <<"#group", "g2", "G2">>,
     <<"#row", "Q", "3", "1", "Q", "DESC">>,
     <<"u1", "9">> >>

\* The files of the model, in an order that is not the sorted one.
FileCatalog ==
  << [name |-> "1.txt", readable |-> TRUE, lines |-> LinesA],
     [name |-> "1.lua", readable |-> TRUE, lines |-> LinesA],
     [name |-> "1.lua", readable |-> TRUE, lines |-> LinesB],
     [name |-> "1a.lua", readable |-> TRUE, lines |-> LinesD],
     [name |-> "2.lua", readable |-> FALSE, lines |-> LinesB],
     [name |-> "2.lua", readable |-> TRUE, lines |-> LinesB],
     [name |-> "3.lua", readable |-> TRUE, lines |-> LinesC],
     [name |-> "_a.lua", readable |-> TRUE, lines |-> LinesA],
     [name |-> "_b.lua", readable |-> TRUE, lines |-> LinesB] >>

\* The files at the catalogue positions S, last position first.
RECURSIVE Descending(_)
Descending(S) ==
  IF S = {} THEN <<>>
  ELSE LET m == CHOOSE x \in S : \A y \in S : y <= x
       IN <<FileCatalog[m]>> \o Descending(S \ {m})

\* The sources of the model: up to MaxFiles files of the catalogue.
Sources ==
  {Descending(S) : S \in {T \in SUBSET (1..Len(FileCatalog)) :
                            Cardinality(T) <= MaxFiles}}

\* The sources the queries are checked on: matches that are won, lost,
\* long and lost, two of them with one timestamp.
QuerySources ==
  { << [name |-> "4.lua", readable |-> TRUE, lines |-> LinesE],
       [name |-> "2.lua", readable |-> TRUE, lines |-> LinesB],
       [name |-> "1a.lua", readable |-> TRUE, lines |-> LinesD],
       [name |-> "1.lua", readable |-> TRUE, lines |-> LinesA] >>,
    << [name |-> "4.lua", readable |-> TRUE, lines |-> LinesE],
       [name |-> "2.lua", readable |-> TRUE, lines |-> LinesB] >> }

\* A #row line with no value lines: id, visibility flag, plugin id, raw
\* parentId and raw childIds in the fields parseRowSection reads.
RowLine(id, flag, plugin, parent, childIds) ==
  <<"#row", id, "1", "0", id, "ASC", "", flag, "", plugin, parent, "",
    childIds>>

\* The #row lines of the hierarchy inputs: rows that list X as a child
\* (two of them with ids that are array indices), X without and with a
\* raw parent, and an invisible and two visible rows of plugin p1.
HierarchyPool ==
  { RowLine("A", "nil", "", "nil", "X:Y"),
    RowLine("B", "nil", "", "nil", "X"),
    RowLine("2", "nil", "", "nil", "X"),
    RowLine("1", "nil", "", "nil", "X"),
    RowLine("X", "nil", "", "nil", "nil"),
    RowLine("X", "nil", "", "P", "nil"),
    RowLine("H", "false", "p1", "nil", "nil"),
    RowLine("V", "nil", "p1", "nil", "nil"),
    RowLine("W", "nil", "p1", "nil", "nil") }

\* The lines of the directive inputs: directives with too few fields,
\* #row blocks that declare two and one value lines, value lines.
DirectivePool ==
  { <<"#mission", "cm_habs">>,
    <<"#group">>,
    <<"#players">>,
    <<"#row">>,
    <<"#row", "dmg", "1", "2", "<damage_dealt>", "DESC">>,
    <<"#row", "kills", "2", "1", "<kills>", "DESC">>,
    <<"u1", "5">>,
    <<"u2", "7">> }

\* The lines of the roster inputs: #players blocks that declare one and
\* two roster lines, a roster line, a roster line whose slot is not a
\* number, a #row block and value lines.
RosterPool ==
  { <<"#players", "1">>,
    <<"#players", "2">>,
    <<"0", "u1", "Alice">>,
    <<"x", "u1", "Alice">>,
    <<"#row", "dmg", "1", "2", "<damage_dealt>", "DESC">>,
    <<"u1", "5">>,
    <<"u2", "7">> }

\* Every sequence of at most n lines of the pool.
LinesUpTo(pool, n) == UNION {[1..m -> pool] : m \in 0..n}

\* One readable file with each of the contents.
FilesOf(contents) ==
  {<<[name |-> "1.lua", readable |-> TRUE, lines |-> ls]>> : ls \in contents}

\* The sources the parser is checked on.
ParseSources ==
  FilesOf(LinesUpTo(HierarchyPool, MaxRowLines)
            \cup LinesUpTo(DirectivePool, MaxLines)
            \cup LinesUpTo(RosterPool, MaxLines))

\* The sources the ingestion of a roster is checked on.
RosterSources == FilesOf(LinesUpTo(RosterPool, MaxLines))

\* parseLuaContent(name, content) on a file of a source.
ParsedFile(f) == parseLuaContent(f.name, f.lines)

\* file.name.endsWith('.lua')
EndsWithLua(name) ==
  name \in {"1.lua", "2.lua", "3.lua", "4.lua", "_a.lua", "_b.lua", "1a.lua"}

\* The position of a name in the order of localeCompare: punctuation
\* sorts before digits, digits before letters.
NameRank(name) ==
  CASE name = "_a.lua" -> 1
    [] name = "_b.lua" -> 2
    [] name = "1.lua" -> 3
    [] name = "1.txt" -> 4
    [] name = "1a.lua" -> 5
    [] name = "2.lua" -> 6
    [] name = "3.lua" -> 7
    [] name = "4.lua" -> 8
    [] OTHER -> 9

\* Array.prototype.sort with the comparator of collectLuaFiles; the sort
\* is stable.  Files are held by their position in the source.
RECURSIVE InsertSorted(_, _, _)
InsertSorted(src, sorted, x) ==
  IF sorted = <<>> THEN <<x>>
  ELSE IF NameRank(src[x].name) < NameRank(src[Head(sorted)].name)
  THEN <<x>> \o sorted
  ELSE <<Head(sorted)>> \o InsertSorted(src, Tail(sorted), x)

RECURSIVE SortByName(_, _)
SortByName(src, idxs) ==
  IF idxs = <<>> THEN <<>>
  ELSE InsertSorted(src, SortByName(src, SubSeq(idxs, 1, Len(idxs) - 1)),
                    idxs[Len(idxs)])

RECURSIVE FilterSeq(_, _)
FilterSeq(idxs, keep) ==
  IF idxs = <<>> THEN <<>>
  ELSE (IF Head(idxs) \in keep THEN <<Head(idxs)>> ELSE <<>>)
       \o FilterSeq(Tail(idxs), keep)

\* collectLuaFiles without the final sort: the files in source order.
collectLuaFilesUnsorted(src) ==
  FilterSeq([k \in 1..Len(src) |-> k],
            {k \in 1..Len(src) : EndsWithLua(src[k].name)})

\* collectLuaFiles(source)
collectLuaFiles(src) ==
  SortByName(src,
    FilterSeq([k \in 1..Len(src) |-> k],
              {k \in 1..Len(src) : EndsWithLua(src[k].name)}))

\* A query for the recorded filenames that returns no row.
FilenamesNone(db) == {}

\* SELECT filename FROM games
Filenames(db) == {g.filename : g \in db.games}

\* ingestFiles without the filter on recorded filenames.
NewFilesOfUnfiltered(src, luaFiles, existingFilenames) == luaFiles

\* luaFiles.filter(f => !existingFilenames.has(f.name))
NewFilesOf(src, luaFiles, existingFilenames) ==
  FilterSeq(luaFiles,
            {k \in 1..Len(src) : src[k].name \notin existingFilenames})

\* ------------------------------------------------------------ the state
VARIABLES
  source,        \* the file source handed to ingestFiles (never changes)
  db,            \* _db: the in-memory sql.js database
  committed,     \* the database as of the last COMMIT (or autocommit)
  persisted,     \* the snapshot stored in IndexedDB under IDB_KEY
  inTx,          \* a transaction opened by BEGIN is active
  pc,            \* "idle", or "loop" while ingestFiles is suspended
  i,             \* the loop counter of ingestFiles: files handled
  newFiles,      \* newFiles of the run, as positions in source
  total,         \* luaFiles.length of the run
  ingested,      \* the counter ingested of the run
  errors,        \* the counter errors of the run
  outcome,       \* how the last run ended: "none", "returned", "threw"
  progress,      \* the last (processed, total) given to progressCallback
  existing,      \* existingFilenames of the run
  readLog,       \* the files handed to readFileContent in the run
  runCounted,    \* the files counted in ingested in the run
  timesCounted,  \* per file: in how many returned summaries it was counted
  runSaveFailed, \* a snapshot write of the run failed
  lastDraft,     \* propertyMetadata of the last draft the parser returned
  lastOp,        \* the last operation and its argument or result
  runs, reloads, saveFails, settingsCalls,
  completedRuns, \* runs that returned on the store now in memory: a reload
                 \* that brings back an older snapshot starts from another store
  everCustomized \* some player has been given a custom name or colour in
                 \* the store now in memory (after a reload: the snapshot
                 \* holds one)

vars ==
  <<source, db, committed, persisted, inTx, pc, i, newFiles, total, ingested,
    errors, outcome, progress, existing, readLog, runCounted, timesCounted,
    runSaveFailed, lastDraft, lastOp, runs, reloads, saveFails,
    settingsCalls, completedRuns, everCustomized>>

INGEST_BATCH_SIZE == BatchBound

\* The state after initDatabase() on a browser without a stored snapshot.
InitWith(sources) ==
  /\ source \in sources
  /\ db = EmptyDb
  /\ committed = EmptyDb
  /\ persisted = EmptyDb
  /\ inTx = FALSE
  /\ pc = "idle"
  /\ i = 0
  /\ newFiles = <<>>
  /\ total = 0
  /\ ingested = 0
  /\ errors = 0
  /\ outcome = "none"
  /\ progress = <<>>
  /\ existing = {}
  /\ readLog = <<>>
  /\ runCounted = {}
  /\ timesCounted = [k \in 1..Len(source) |-> 0]
  /\ runSaveFailed = FALSE
  /\ lastDraft = <<>>
  /\ lastOp = [op |-> "init", arg |-> ""]
  /\ runs = 0
  /\ reloads = 0
  /\ saveFails = 0
  /\ settingsCalls = 0
  /\ completedRuns = 0
  /\ everCustomized = FALSE

\* _saveToIDB resolves (TRUE) or rejects (FALSE).
SaveOutcomes == {TRUE} \cup (IF saveFails < MaxSaveFails THEN {FALSE} ELSE {})

\* ingestFiles up to its first suspension (lines 221-234).
StartIngest ==
  /\ pc = "idle"
  /\ runs < MaxRuns
  /\ runs' = runs + 1
  /\ LET luaFiles == collectLuaFiles(source)
         fresh == NewFilesOf(source, luaFiles, Filenames(db))
     IN /\ existing' = Filenames(db)
        /\ newFiles' = fresh
        /\ total' = Len(luaFiles)
        /\ IF fresh = <<>>
           THEN /\ progress' = <<0, 0>>
                /\ outcome' = "returned"
                /\ completedRuns' = completedRuns + 1
                /\ UNCHANGED <<pc, inTx>>
           ELSE /\ pc' = "loop"
                /\ inTx' = TRUE
                /\ outcome' = "none"
                /\ UNCHANGED <<progress, completedRuns>>
  /\ i' = 0
  /\ ingested' = 0
  /\ errors' = 0
  /\ readLog' = <<>>
  /\ runCounted' = {}
  /\ runSaveFailed' = FALSE
  /\ lastOp' = [op |-> "startIngest", arg |-> ""]
  /\ UNCHANGED <<source, db, committed, persisted, timesCounted, lastDraft,
                 reloads, saveFails, settingsCalls, everCustomized>>

\* The end of ingestFiles (lines 261-266) on the store dbx: COMMIT, the
\* name backfill, the final snapshot and the summary.
Finish(dbx, ing, counted) ==
  \E dbF \in (IF ing > 0
              THEN {[dbx EXCEPT !.game_players = t] :
                      t \in BackfillChoices(dbx.game_players)}
              ELSE {dbx}) :
    \E ok \in SaveOutcomes :
      /\ db' = dbF
      /\ committed' = dbF
      /\ inTx' = FALSE
      /\ pc' = "idle"
      /\ IF ok
         THEN /\ persisted' = dbF
              /\ progress' = <<Len(newFiles), Len(newFiles)>>
              /\ outcome' = "returned"
              /\ completedRuns' = completedRuns + 1
              /\ timesCounted' =
                   [k \in DOMAIN timesCounted |->
                      timesCounted[k] + (IF k \in counted THEN 1 ELSE 0)]
              /\ UNCHANGED <<saveFails, runSaveFailed>>
         ELSE /\ outcome' = "threw"
              /\ saveFails' = saveFails + 1
              /\ runSaveFailed' = TRUE
              /\ UNCHANGED <<persisted, progress, completedRuns, timesCounted>>

\* The batch checkpoint (lines 253-259) on the store dbx, up to the yield.
Checkpoint(dbx) ==
  \E ok \in SaveOutcomes :
    /\ db' = dbx
    /\ committed' = dbx
    /\ IF ok
       THEN /\ persisted' = dbx
            /\ inTx' = TRUE
            /\ progress' = <<i + 1, Len(newFiles)>>
            /\ UNCHANGED <<pc, outcome, saveFails, runSaveFailed>>
       ELSE /\ inTx' = FALSE
            /\ pc' = "idle"
            /\ outcome' = "threw"
            /\ saveFails' = saveFails + 1
            /\ runSaveFailed' = TRUE
            /\ UNCHANGED <<persisted, progress>>
    /\ UNCHANGED <<completedRuns, timesCounted>>

\* What one pass of the loop body does with the file at position k of the
\* source (lines 236-251).
FileOutcome(dbx, entry) ==
  IF ~entry.readable THEN [kind |-> "read_error", db |-> dbx]
  ELSE IF IsNullGame(ParsedFile(entry))
  THEN [kind |-> "parse_error", db |-> dbx]
  ELSE LET r == insertGame(dbx, ParsedFile(entry))
       IN [kind |-> IF r.threw THEN "insert_error" ELSE "ingested",
           db |-> r.db]

\* The parse failure leaves the loop body with continue, past the
\* checkpoint; every other outcome reaches it.
ReachesCheckpoint(kind, handled) ==
  kind # "parse_error" /\ handled % INGEST_BATCH_SIZE = 0

\* One pass of the for loop of ingestFiles, from readFileContent to the
\* next suspension; after the last file, on to the end of the function
\* unless the checkpoint yields first.
IngestFile ==
  /\ pc = "loop"
  /\ inTx
  /\ i < Len(newFiles)
  /\ LET k == newFiles[i + 1]
         r == FileOutcome(db, source[k])
         ing == ingested + (IF r.kind = "ingested" THEN 1 ELSE 0)
         counted == IF r.kind = "ingested" THEN runCounted \cup {k}
                    ELSE runCounted
     IN /\ i' = i + 1
        /\ ingested' = ing
        /\ errors' = errors + (IF r.kind = "ingested" THEN 0 ELSE 1)
        /\ readLog' = Append(readLog, k)
        /\ runCounted' = counted
        /\ lastDraft' =
             IF r.kind \in {"insert_error", "ingested"}
             THEN ParsedFile(source[k]).propertyMetadata
             ELSE lastDraft
        /\ lastOp' = [op |-> "ingestFile", arg |-> r.kind]
        /\ IF ReachesCheckpoint(r.kind, i + 1) THEN Checkpoint(r.db)
           ELSE IF i + 1 = Len(newFiles) THEN Finish(r.db, ing, counted)
           ELSE /\ db' = r.db
                /\ UNCHANGED <<committed, persisted, inTx, pc, outcome,
                               progress, saveFails, runSaveFailed,
                               completedRuns, timesCounted>>
  /\ UNCHANGED <<source, newFiles, total, existing, runs, reloads,
                 settingsCalls, everCustomized>>

\* ingestFiles resumes after the yield that followed the last file.
FinishIngest ==
  /\ pc = "loop"
  /\ inTx
  /\ i = Len(newFiles)
  /\ Finish(db, ingested, runCounted)
  /\ lastOp' = [op |-> "finishIngest", arg |-> ""]
  /\ UNCHANGED <<source, i, newFiles, total, ingested, errors, existing,
                 readLog, runCounted, lastDraft, runs, reloads,
                 settingsCalls, everCustomized>>

\* The page is closed at any moment and opened again: initDatabase()
\* restores the store from the stored snapshot.
Reload ==
  /\ reloads < MaxReloads
  /\ reloads' = reloads + 1
  /\ db' = initDatabase(persisted)
  /\ committed' = db'
  /\ inTx' = FALSE
  /\ pc' = "idle"
  /\ i' = 0
  /\ newFiles' = <<>>
  /\ total' = 0
  /\ ingested' = 0
  /\ errors' = 0
  /\ outcome' = "none"
  /\ progress' = <<>>
  /\ existing' = {}
  /\ readLog' = <<>>
  /\ runCounted' = {}
  /\ runSaveFailed' = FALSE
  /\ lastDraft' = <<>>
  /\ lastOp' = [op |-> "reload", arg |-> BlobKind(persisted)]
  /\ completedRuns' = IF db' = db THEN completedRuns ELSE 0
  /\ everCustomized' = HasTracked(db')
  /\ UNCHANGED <<source, persisted, timesCounted, runs, saveFails,
                 settingsCalls>>

\* The variables no settings call touches.
SettingsFrame ==
  UNCHANGED <<source, inTx, pc, i, newFiles, total, ingested, errors,
              outcome, progress, existing, readLog, runCounted, timesCounted,
              runSaveFailed, lastDraft, runs, reloads, completedRuns>>

PlayerIds == {"u1", "u2"}
CustomNames == {Null, "Me"}
Colors == {Null, "#888888"}

\* savePlayerSettingsDB(playerId, customName, color) with its unawaited
\* saveDatabase().
SavePlayerSettings ==
  /\ pc = "idle"
  /\ settingsCalls < MaxSettingsCalls
  /\ settingsCalls' = settingsCalls + 1
  /\ \E p \in PlayerIds, n \in CustomNames, c \in Colors, ok \in SaveOutcomes :
       /\ db' = savePlayerSettingsDB(db, p, n, c)
       /\ committed' = db'
       /\ persisted' = IF ok THEN db' ELSE persisted
       /\ saveFails' = saveFails + (IF ok THEN 0 ELSE 1)
       /\ lastOp' = [op |-> "savePlayerSettingsDB", arg |-> p]
       /\ everCustomized' = (everCustomized \/ ~(Falsy(n) /\ Falsy(c)))
  /\ SettingsFrame

\* saveMainPlayer(playerId) with its unawaited saveDatabase().
SaveMainPlayer ==
  /\ pc = "idle"
  /\ settingsCalls < MaxSettingsCalls
  /\ settingsCalls' = settingsCalls + 1
  /\ \E p \in PlayerIds, ok \in SaveOutcomes :
       /\ db' = saveMainPlayer(db, p)
       /\ committed' = db'
       /\ persisted' = IF ok THEN db' ELSE persisted
       /\ saveFails' = saveFails + (IF ok THEN 0 ELSE 1)
       /\ lastOp' = [op |-> "saveMainPlayer", arg |-> p]
  /\ UNCHANGED everCustomized
  /\ SettingsFrame

\* autoSetupDefaultPlayer(): nothing when a player is tracked or no human
\* is on a roster, else the two settings calls on the top player.
AutoSetupDefaultPlayer ==
  /\ pc = "idle"
  /\ UNCHANGED settingsCalls
  /\ IF HasTracked(db) \/ TopHumans(db) = {}
     THEN /\ UNCHANGED <<db, committed, persisted, saveFails, everCustomized>>
          /\ lastOp' = [op |-> "autoSetupDefaultPlayer", arg |-> ""]
     ELSE \E top \in TopHumans(db), ok1 \in SaveOutcomes, ok2 \in SaveOutcomes :
            LET mid == savePlayerSettingsDB(db, top, "Me", "#e94560")
                fails == (IF ok1 THEN 0 ELSE 1) + (IF ok2 THEN 0 ELSE 1)
            IN /\ saveFails + fails <= MaxSaveFails
               /\ db' = saveMainPlayer(mid, top)
               /\ committed' = db'
               /\ persisted' = IF ok2 THEN db'
                               ELSE IF ok1 THEN mid ELSE persisted
               /\ saveFails' = saveFails + fails
               /\ lastOp' = [op |-> "autoSetupDefaultPlayer", arg |-> top]
               /\ everCustomized' = TRUE
  /\ SettingsFrame

AppSettingKeys == {"range_mode"}
AppSettingValues == {"all", "last_n"}

\* saveAppSetting(key, value) with its unawaited saveDatabase().
SaveAppSetting ==
  /\ pc = "idle"
  /\ settingsCalls < MaxSettingsCalls
  /\ settingsCalls' = settingsCalls + 1
  /\ \E k \in AppSettingKeys, v \in AppSettingValues, ok \in SaveOutcomes :
       /\ db' = saveAppSetting(db, k, v)
       /\ committed' = db'
       /\ persisted' = IF ok THEN db' ELSE persisted
       /\ saveFails' = saveFails + (IF ok THEN 0 ELSE 1)
       /\ lastOp' = [op |-> "saveAppSetting", arg |-> k]
  /\ UNCHANGED everCustomized
  /\ SettingsFrame

\* clearDatabase(), called by resetDB: the new database, then the awaited
\* saveDatabase(); when the snapshot write is rejected so is clearDatabase.
ClearDatabase ==
  /\ pc = "idle"
  /\ \E ok \in SaveOutcomes :
       /\ db' = clearDatabase(db)
       /\ committed' = db'
       /\ persisted' = IF ok THEN db' ELSE persisted
       /\ saveFails' = saveFails + (IF ok THEN 0 ELSE 1)
       /\ lastOp' = [op |-> "clearDatabase",
                     arg |-> IF ok THEN "completed" ELSE "rejected"]
  /\ everCustomized' = FALSE
  /\ completedRuns' = 0
  /\ UNCHANGED <<source, inTx, pc, i, newFiles, total, ingested, errors,
                 outcome, progress, existing, readLog, runCounted,
                 timesCounted, runSaveFailed, lastDraft, runs, reloads,
                 settingsCalls>>

Init == InitWith(Sources)

\* Ingestion runs, snapshot failures and reloads over every source.
Next ==
  \/ StartIngest
  \/ IngestFile
  \/ FinishIngest
  \/ Reload

Spec == Init /\ [][Next]_vars

\* The sources of the specification with the player-settings calls: a
\* roster with two humans, one of them seen twice.
SettingsSources ==
  {Descending(S) : S \in {{}, {2}, {2, 6}}}

InitSettings == InitWith(SettingsSources)

NextSettings ==
  \/ StartIngest
  \/ IngestFile
  \/ FinishIngest
  \/ Reload
  \/ SavePlayerSettings
  \/ SaveMainPlayer
  \/ AutoSetupDefaultPlayer

SpecSettings == InitSettings /\ [][NextSettings]_vars

\* The stored snapshot is damaged outside the program: replaced by bytes
\* that are not an SQLite file, or its data pages damaged.
CorruptSnapshot ==
  /\ BlobKind(persisted) = "valid"
  /\ \E kind \in {"garbage", "damaged"} :
       /\ persisted' = [kind |-> kind, was |-> persisted]
       /\ lastOp' = [op |-> "corruptSnapshot", arg |-> kind]
  /\ UNCHANGED <<source, db, committed, inTx, pc, i, newFiles, total,
                 ingested, errors, outcome, progress, existing, readLog,
                 runCounted, timesCounted, runSaveFailed, lastDraft, runs,
                 reloads, saveFails, settingsCalls, completedRuns,
                 everCustomized>>

\* The site data is deleted: no value is stored under IDB_KEY.
DeleteSnapshot ==
  /\ BlobKind(persisted) = "valid"
  /\ persisted' = [kind |-> "absent", was |-> EmptyDb]
  /\ lastOp' = [op |-> "deleteSnapshot", arg |-> ""]
  /\ UNCHANGED <<source, db, committed, inTx, pc, i, newFiles, total,
                 ingested, errors, outcome, progress, existing, readLog,
                 runCounted, timesCounted, runSaveFailed, lastDraft, runs,
                 reloads, saveFails, settingsCalls, completedRuns,
                 everCustomized>>

\* Ingestion and page loads with absent, valid and corrupt snapshots.
NextStartup ==
  \/ StartIngest
  \/ IngestFile
  \/ FinishIngest
  \/ Reload
  \/ CorruptSnapshot
  \/ DeleteSnapshot

SpecStartup == InitSettings /\ [][NextStartup]_vars

\* saveAppSetting(key, value) called while an ingestFiles run is suspended
\* with its transaction open (at await readFileContent, or at the yield
\* that follows BEGIN).  The INSERT joins the open transaction; the
\* export() of saveDatabase() closes and reopens the database, which rolls
\* the transaction back: the store and the exported bytes are the
\* committed state.
SaveAppSettingDuringRun ==
  /\ pc = "loop"
  /\ inTx
  /\ settingsCalls < MaxSettingsCalls
  /\ settingsCalls' = settingsCalls + 1
  /\ \E k \in AppSettingKeys, v \in AppSettingValues, ok \in SaveOutcomes :
       /\ db' = committed
       /\ inTx' = FALSE
       /\ persisted' = IF ok THEN committed ELSE persisted
       /\ saveFails' = saveFails + (IF ok THEN 0 ELSE 1)
       /\ lastOp' = [op |-> "saveAppSetting", arg |-> k,
                     written |-> saveAppSetting(db, k, v)]
  /\ UNCHANGED <<source, committed, pc, i, newFiles, total, ingested,
                 errors, outcome, progress, existing, readLog, runCounted,
                 timesCounted, runSaveFailed, lastDraft, runs, reloads,
                 completedRuns, everCustomized>>

\* One pass of the loop of ingestFiles after its transaction was rolled
\* back: every statement of insertGame commits on its own, and the COMMIT
\* of the checkpoint or of the end of the function throws, which ends the
\* run.
IngestFileNoTransaction ==
  /\ pc = "loop"
  /\ ~inTx
  /\ i < Len(newFiles)
  /\ LET k == newFiles[i + 1]
         r == FileOutcome(db, source[k])
     IN /\ i' = i + 1
        /\ ingested' = ingested + (IF r.kind = "ingested" THEN 1 ELSE 0)
        /\ errors' = errors + (IF r.kind = "ingested" THEN 0 ELSE 1)
        /\ readLog' = Append(readLog, k)
        /\ runCounted' = IF r.kind = "ingested" THEN runCounted \cup {k}
                         ELSE runCounted
        /\ lastDraft' =
             IF r.kind \in {"insert_error", "ingested"}
             THEN ParsedFile(source[k]).propertyMetadata
             ELSE lastDraft
        /\ lastOp' = [op |-> "ingestFile", arg |-> r.kind]
        /\ db' = r.db
        /\ committed' = r.db
        /\ IF ReachesCheckpoint(r.kind, i + 1) \/ i + 1 = Len(newFiles)
           THEN pc' = "idle" /\ outcome' = "threw"
           ELSE UNCHANGED <<pc, outcome>>
  /\ UNCHANGED <<source, persisted, inTx, newFiles, total, progress,
                 existing, timesCounted, runSaveFailed, runs, reloads,
                 saveFails, settingsCalls, completedRuns, everCustomized>>

\* ingestFiles resumes after the yield that followed the last file, its
\* transaction rolled back: the COMMIT throws.
FinishIngestNoTransaction ==
  /\ pc = "loop"
  /\ ~inTx
  /\ i = Len(newFiles)
  /\ pc' = "idle"
  /\ outcome' = "threw"
  /\ lastOp' = [op |-> "finishIngest", arg |-> ""]
  /\ UNCHANGED <<source, db, committed, persisted, inTx, i, newFiles, total,
                 ingested, errors, progress, existing, readLog, runCounted,
                 timesCounted, runSaveFailed, lastDraft, runs, reloads,
                 saveFails, settingsCalls, completedRuns, everCustomized>>

\* Ingestion runs with settings saved while a run is suspended.
NextConcurrent ==
  \/ StartIngest
  \/ IngestFile
  \/ FinishIngest
  \/ Reload
  \/ SaveAppSettingDuringRun
  \/ IngestFileNoTransaction
  \/ FinishIngestNoTransaction

SpecConcurrent == Init /\ [][NextConcurrent]_vars

\* parseLuaContent(name, content) on the file of the source, as the loop
\* of ingestFiles calls it.
ParseFile ==
  /\ pc = "idle"
  /\ lastOp.op = "init"
  /\ lastOp' = [op |-> "parse", arg |-> source[1].lines,
                result |-> parseLuaContent(source[1].name, source[1].lines)]
  /\ UNCHANGED <<source, db, committed, persisted, inTx, pc, i, newFiles,
                 total, ingested, errors, outcome, progress, existing,
                 readLog, runCounted, timesCounted, runSaveFailed, lastDraft,
                 runs, reloads, saveFails, settingsCalls, completedRuns,
                 everCustomized>>

InitParse == InitWith(ParseSources)

\* The parser alone.
NextParse == ParseFile

SpecParse == InitParse /\ [][NextParse]_vars

InitRoster == InitWith(RosterSources)

\* Ingestion runs over the roster inputs.
NextRoster ==
  \/ StartIngest
  \/ IngestFile

SpecRoster == InitRoster /\ [][NextRoster]_vars

\* Ingestion, settings and resets of the store.
NextReset ==
  \/ StartIngest
  \/ IngestFile
  \/ FinishIngest
  \/ Reload
  \/ AutoSetupDefaultPlayer
  \/ SaveAppSetting
  \/ ClearDatabase

SpecReset == InitSettings /\ [][NextReset]_vars

\* ------------------------------------------------------- query actions
\* The variables a query leaves alone: all but the record of the call.
QueryFrame ==
  UNCHANGED <<source, db, committed, persisted, inTx, pc, i, newFiles, total,
              ingested, errors, outcome, progress, existing, readLog,
              runCounted, timesCounted, runSaveFailed, lastDraft, runs,
              reloads, saveFails, settingsCalls, completedRuns,
              everCustomized>>

\* The params handed to getGames: every result filter, property set and
\* "last N" setting, and the other filters on and off.
QueryParams ==
  {[propertyIds |-> p, resultFilter |-> rf, difficulties |-> {},
    missions |-> {}, modifiers |-> {}, startTime |-> {}, endTime |-> {},
    lastNGames |-> n] :
     p \in {{}, {"dmg"}, {"dmg", "P"}},
     rf \in {"all", "won", "won_and_long_lost", "lost"},
     n \in 0..2}
  \cup
  {[propertyIds |-> {"dmg", "P"}, resultFilter |-> "all", difficulties |-> d,
    missions |-> {}, modifiers |-> {}, startTime |-> st, endTime |-> en,
    lastNGames |-> n] :
     d \in {{}, {3, 4}}, st \in {{}, {2}}, en \in {{}, {2}}, n \in {0, 2}}
  \cup
  {[propertyIds |-> {"dmg", "P"}, resultFilter |-> "all", difficulties |-> {},
    missions |-> m, modifiers |-> mo, startTime |-> {}, endTime |-> {},
    lastNGames |-> 0] :
     m \in {{}, {"cm_habs"}}, mo \in {{}, {"maelstrom"}}}

\* getGames(params), called by the charts on the store as it is.
GetGames ==
  /\ \E params \in QueryParams :
       \E res \in getGames(db, params) :
         lastOp' = [op |-> "getGames", arg |-> params, result |-> res]
  /\ QueryFrame

\* getProperties()
GetProperties ==
  /\ \E res \in getProperties(db) :
       lastOp' = [op |-> "getProperties", arg |-> "", result |-> res]
  /\ QueryFrame

InitQuery == InitWith(QuerySources)

NextQuery ==
  \/ StartIngest
  \/ IngestFile
  \/ FinishIngest
  \/ Reload
  \/ GetGames
  \/ GetProperties

SpecQuery == InitQuery /\ [][NextQuery]_vars

\* ================================================================ claims
\* Helpers of the claims.
RosterKeys(d) ==
  {<<r.game_id, r.player_id, r.slot, r.quitter>> : r \in d.game_players}

Min(a, b) == IF a < b THEN a ELSE b

\* The step is one pass of the ingestFiles loop.
FileStep == lastOp'.op = "ingestFile" /\ i' = i + 1

\* ---------------------------------------------------------------------
\* C1: whenever insertGame fails while ingestFiles handles a file, the
\* store afterwards holds no row and no PropertyMeta change written for
\* that file, the rows of earlier matches are unchanged, errors has grown
\* by exactly one, and the run goes on (it is not ended by that file).
C1_InsertFailureIsolated ==
  [][(FileStep /\ lastOp'.arg = "insert_error") =>
       /\ db'.games = db.games
       /\ db'.players = db.players
       /\ RosterKeys(db') = RosterKeys(db)
       /\ db'.properties = db.properties
       /\ db'.scores = db.scores
       /\ errors' = errors + 1
       /\ (outcome' = "threw" => runSaveFailed')]_vars

\* ---------------------------------------------------------------------
\* C2: once one ingestFiles run has returned on a store, a further run
\* over the unchanged source takes no already-recorded filename into
\* newFiles, no step adds a Game, RosterEntry or Score row to that store,
\* and over all returned summaries together each file is counted in
\* ingested at most once.
C2_RerunIdempotent ==
  [][completedRuns >= 1 =>
       /\ db'.games \subseteq db.games
       /\ RosterKeys(db') \subseteq RosterKeys(db)
       /\ db'.scores \subseteq db.scores
       /\ (runs' = runs + 1 =>
             \A j \in 1..Len(newFiles') :
               source[newFiles'[j]].name \notin Filenames(db))
       /\ \A k \in DOMAIN timesCounted' : timesCounted'[k] <= 1]_vars

\* A second run, after a returned one, that skipped a recorded file and
\* handled a file that is still not recorded.
C2_Witness ==
  /\ completedRuns >= 1
  /\ runs >= 2
  /\ lastOp.op = "ingestFile"
  /\ existing # {}
  /\ \E k \in DOMAIN timesCounted : timesCounted[k] = 1

\* ---------------------------------------------------------------------
\* C3: the store never holds two Game rows with one filename, and no step
\* changes a field of a Game row that stays in the store, also when the
\* source offers one filename twice in a run.
C3_OneImmutableGamePerFile ==
  [][/\ \A g \in db'.games : \A h \in db'.games :
          g.filename = h.filename => g = h
     /\ \A g \in db.games : \A h \in db'.games :
          (g.id = h.id \/ g.filename = h.filename) => g = h]_vars

\* The second file of a name was handed to insertGame in the run that
\* inserted the first, and was refused.
C3_Witness ==
  /\ lastOp = [op |-> "ingestFile", arg |-> "insert_error"]
  /\ Len(readLog) >= 2
  /\ source[readLog[Len(readLog)]].name = source[readLog[Len(readLog) - 1]].name
  /\ readLog[Len(readLog) - 1] \in runCounted
  /\ source[readLog[Len(readLog)]].name \in Filenames(db)

\* ---------------------------------------------------------------------
\* The rows insertGame writes for the draft of file e as game gameId are
\* all in the snapshot d.
MatchComplete(d, gameId, e) ==
  /\ e.readable
  /\ ~IsNullGame(ParsedFile(e))
  /\ LET game == ParsedFile(e)
     IN /\ \A k \in 1..Len(game.propertyMetadata) :
             \E r \in d.properties : r.id = game.propertyMetadata[k].id
        /\ \A k \in 1..Len(game.scores) :
             \E r \in d.scores : /\ r.game_id = gameId
                                 /\ r.player_id = game.scores[k][2]
                                 /\ r.property_id = game.scores[k][1]
        /\ \A k \in 1..Len(game.players) :
             game.players[k][1] # NaN =>
               \E r \in d.game_players : /\ r.game_id = gameId
                                         /\ r.player_id = game.players[k][2]

\* The files of the first n of the run that were counted in ingested.
InsertedAmongFirst(n) ==
  {source[newFiles[j]].name :
     j \in {x \in 1..Min(n, Len(newFiles)) : newFiles[x] \in runCounted}}

\* C4: every snapshot persisted while a run is under way is batch-aligned:
\* for some k it holds, of the new files, exactly the matches inserted
\* among the first k*N, every match in it is there with all its rows, and
\* no match is in it in part.
C4_SnapshotBatchAligned ==
  (lastOp.op \in {"startIngest", "ingestFile", "finishIngest"}
   /\ newFiles # <<>>) =>
    /\ \E k \in 0..Len(newFiles) :
         Filenames(persisted) \ existing
           = InsertedAmongFirst(k * INGEST_BATCH_SIZE)
    /\ \A g \in persisted.games :
         \E n \in 1..Len(source) :
           /\ source[n].name = g.filename
           /\ MatchComplete(persisted, g.id, source[n])

\* ---------------------------------------------------------------------
\* C5: a failing snapshot write does not stop ingestion: after a write of
\* the run has failed, the run is still under way or has returned its
\* summary with every new file handled.
C5_SaveFailureDoesNotStop ==
  runSaveFailed =>
    \/ pc = "loop"
    \/ outcome = "returned" /\ Len(readLog) = Len(newFiles)

\* ---------------------------------------------------------------------
\* Following the parent links of P from x for n steps (Null once the
\* chain has left the properties of P).
RECURSIVE Follow(_, _, _)
Follow(P, x, n) ==
  IF n = 0 THEN x
  ELSE IF x \notin DOMAIN P THEN Null
  ELSE Follow(P, P[x], n - 1)

\* No property of P is its own ancestor.
Acyclic(P) ==
  \A x \in DOMAIN P :
    \A n \in 1..Cardinality(DOMAIN P) : Follow(P, x, n) # x

DraftParents(pm) ==
  [x \in {pm[k].id : k \in 1..Len(pm)} |-> Lookup(pm, x).parentId]

StoreParents(d) ==
  [x \in {r.id : r \in d.properties} |->
     (CHOOSE r \in d.properties : r.id = x).parent_id]

\* C6: the parent links of the properties have no cycle and no self-parent,
\* in the draft the parser returns and in the store, whatever parentId and
\* childIds the files declare.
C6_ParentGraphIsForest ==
  /\ Acyclic(DraftParents(lastDraft))
  /\ Acyclic(StoreParents(db))

\* ---------------------------------------------------------------------
\* C7: when ingestFiles returns, total is the number of .lua files of the
\* source, and the files handed to readFileContent are exactly the .lua
\* files whose name was not recorded when the run began, each once, in
\* ascending order of name.
C7_ProcessesExactlyNewFiles ==
  (outcome = "returned" /\ pc = "idle") =>
    /\ total = Cardinality({k \in 1..Len(source) : EndsWithLua(source[k].name)})
    /\ Range(readLog) =
         {k \in 1..Len(source) : /\ EndsWithLua(source[k].name)
                                 /\ source[k].name \notin existing}
    /\ Cardinality(Range(readLog)) = Len(readLog)
    /\ \A a \in 1..Len(readLog) : \A b \in 1..Len(readLog) :
         a < b => NameRank(source[readLog[a]].name)
                    <= NameRank(source[readLog[b]].name)

\* A returned run that handled two new files, out of source order, and
\* left out a recorded file and a file that is no .lua file.
C7_Witness ==
  /\ outcome = "returned"
  /\ pc = "idle"
  /\ Len(readLog) >= 2
  /\ readLog[1] > readLog[2]
  /\ existing # {}
  /\ total > Len(readLog)

\* ---------------------------------------------------------------------
\* C8: after every N-th new file of a run has been handled, whatever its
\* outcome, the transaction is committed, the snapshot holds the store and
\* progress (k*N, number of new files) is reported before the next file.
C8_CheckpointEveryNthFile ==
  (pc = "loop" /\ i > 0 /\ i % INGEST_BATCH_SIZE = 0) =>
    /\ committed = db
    /\ persisted = db
    /\ progress = <<i, Len(newFiles)>>

\* ---------------------------------------------------------------------
\* No roster entry of d is named 'Unknown' while another entry of the same
\* player carries a name.
NamesBackfilled(d) ==
  \A r \in d.game_players : \A q \in d.game_players :
    (r.player_id = q.player_id /\ r.name = "Unknown") => q.name = "Unknown"

\* C9: when an ingestFiles run has returned, the store, and the snapshot
\* the run wrote last, hold no roster entry named 'Unknown' next to a
\* named entry of the same player.
C9_NamesBackfilledAtReturn ==
  (outcome = "returned" /\ pc = "idle") =>
    /\ NamesBackfilled(db)
    /\ newFiles # <<>> => NamesBackfilled(persisted)

\* ---------------------------------------------------------------------
Mains(d) == {r.player_id : r \in {x \in d.player_settings : x.is_main = 1}}

\* C10: after any sequence of saveMainPlayer, savePlayerSettingsDB and
\* autoSetupDefaultPlayer calls at most one player has is_main = 1, and
\* right after saveMainPlayer(p) the only main is p.
C10_AtMostOneMain ==
  /\ Cardinality(Mains(db)) <= 1
  /\ lastOp.op = "saveMainPlayer" => Mains(db) = {lastOp.arg}

\* saveMainPlayer(p) was called while another player was the main.
C10_Witness ==
  /\ lastOp.op = "saveMainPlayer"
  /\ \E r \in db.player_settings :
       /\ r.player_id # lastOp.arg
       /\ r.custom_name = Null
       /\ r.color = Null

\* ---------------------------------------------------------------------
\* C11: every score entry getGames returns is a score of the returned game
\* it is filed under and of a requested property, and with no property
\* requested the result is empty.
C11_ScoresWithinRequest ==
  lastOp.op = "getGames" =>
    /\ lastOp.arg.propertyIds = {} => lastOp.result = <<>>
    /\ \A k \in 1..Len(lastOp.result) :
         \A sc \in lastOp.result[k].scores :
           /\ sc.property_id \in lastOp.arg.propertyIds
           /\ [game_id |-> lastOp.result[k].id, player_id |-> sc.player_id,
               property_id |-> sc.property_id, value |-> sc.value]
                \in db.scores

\* getGames returned a game with a score entry while the store holds a
\* score of that game for a property that was not requested.
C11_Witness ==
  /\ lastOp.op = "getGames"
  /\ \E k \in 1..Len(lastOp.result) :
       /\ lastOp.result[k].scores # {}
       /\ \E r \in db.scores :
            /\ r.game_id = lastOp.result[k].id
            /\ r.property_id \notin lastOp.arg.propertyIds

\* ---------------------------------------------------------------------
\* What C12 says of a result of getGames in "last N" mode: at most N
\* games, ascending by timestamp, and exactly the N most recent of the
\* games matching the other filters (all of them when fewer match).
LastNMostRecent(res, params, d) ==
  LET matching == {g \in d.games : MatchesFilters(g, params)}
      ids == {res[k].id : k \in 1..Len(res)}
  IN /\ Len(res) = Min(params.lastNGames, Cardinality(matching))
     /\ Cardinality(ids) = Len(res)
     /\ \A a \in 1..Len(res) : \A b \in 1..Len(res) :
          a < b => res[a].timestamp <= res[b].timestamp
     /\ \A k \in 1..Len(res) :
          \E g \in matching : g.id = res[k].id /\ g.timestamp = res[k].timestamp
     /\ \A g \in matching :
          g.id \notin ids =>
            \A k \in 1..Len(res) : res[k].timestamp >= g.timestamp

\* C12 (amended): in "last N" mode with a property requested, getGames
\* returns at most N games, ascending by timestamp, exactly the N most
\* recent of the games matching the other filters.
C12_LastNMostRecent ==
  (lastOp.op = "getGames" /\ lastOp.arg.lastNGames > 0
   /\ lastOp.arg.propertyIds # {}) =>
    LastNMostRecent(lastOp.result, lastOp.arg, db)

\* C12 as stated, for every params: also with no property requested.
C12_LastNForEveryParams ==
  (lastOp.op = "getGames" /\ lastOp.arg.lastNGames > 0) =>
    LastNMostRecent(lastOp.result, lastOp.arg, db)

\* "Last 1" was asked of a store with two matching games of different
\* timestamps, and one game came back.
C12_Witness ==
  /\ lastOp.op = "getGames"
  /\ lastOp.arg.lastNGames = 1
  /\ Len(lastOp.result) = 1
  /\ \E g \in db.games : /\ MatchesFilters(g, lastOp.arg)
                         /\ g.timestamp < lastOp.result[1].timestamp

\* ---------------------------------------------------------------------
\* The least row_order of the properties of category gid in the store.
GroupMinOrder(d, gid) ==
  LET orders == {r.row_order : r \in {x \in d.properties : x.group_id = gid}}
  IN CHOOSE m \in orders : \A o \in orders : m <= o

\* C13: getProperties returns the categories in ascending order of the
\* least rowOrder over all properties of each category, and within a
\* category a property comes after its parent.
C13_CategoriesByMinRowOrder ==
  lastOp.op = "getProperties" =>
    LET res == lastOp.result
    IN /\ \A a \in 1..Len(res) : \A b \in 1..Len(res) :
            a < b => GroupMinOrder(db, res[a].groupId)
                       <= GroupMinOrder(db, res[b].groupId)
       /\ \A k \in 1..Len(res) :
            \A a \in 1..Len(res[k].properties) :
              \A b \in 1..Len(res[k].properties) :
                res[k].properties[a].parentId = res[k].properties[b].id
                  => b < a

\* ---------------------------------------------------------------------
\* The file names of the model that are a decimal number followed by .lua.
DecimalNames == {"1.lua", "2.lua", "3.lua", "4.lua"}

\* C14: a file whose name without .lua is not a decimal timestamp, once
\* read, is rejected by the parser (no draft), counts as exactly one error
\* and adds no row to any table.
C14_BadFilenameRejected ==
  [][(FileStep /\ source[newFiles[i + 1]].readable
              /\ source[newFiles[i + 1]].name \notin DecimalNames) =>
       /\ lastOp'.arg = "parse_error"
       /\ errors' = errors + 1
       /\ ingested' = ingested
       /\ db'.games = db.games
       /\ db'.scores = db.scores
       /\ db'.properties = db.properties
       /\ db'.players = db.players
       /\ RosterKeys(db') = RosterKeys(db)]_vars

\* ---------------------------------------------------------------------
\* The step belongs to an ingestFiles run.
IngestionStep == lastOp'.op \in {"startIngest", "ingestFile", "finishIngest"}

\* Row r of game_players is in table as it was, or with another name.
KeptUpToName(r, table) ==
  \E q \in table : q = [r EXCEPT !.name = q.name]

\* C15 (as stated): no step of an ingestion run modifies or deletes a row
\* of games, players, game_players or scores that was in the store before
\* the step; only rows of properties may be rewritten.
C15_AppendOnlyExceptProperties ==
  [][IngestionStep =>
       /\ db.games \subseteq db'.games
       /\ db.players \subseteq db'.players
       /\ db.game_players \subseteq db'.game_players
       /\ db.scores \subseteq db'.scores]_vars

\* C15 (amended): no step of an ingestion run deletes a row of games,
\* players, game_players or scores, and the only change to an existing row
\* of these tables is the name of a roster entry that was 'Unknown'.
C15_AppendOnlyExceptBackfill ==
  [][IngestionStep =>
       /\ db.games \subseteq db'.games
       /\ db.players \subseteq db'.players
       /\ db.scores \subseteq db'.scores
       /\ \A r \in db.game_players :
            \/ r \in db'.game_players
            \/ r.name = "Unknown" /\ KeptUpToName(r, db'.game_players)
       /\ Cardinality(db.game_players) <= Cardinality(db'.game_players)]_vars

\* A run has returned that found games in the store and added one, and
\* the store holds a roster entry the backfill has renamed.
C15_Witness ==
  /\ outcome = "returned" /\ pc = "idle"
  /\ existing # {}
  /\ ingested > 0
  /\ \E r \in db.game_players : r.quitter = 1 /\ r.name # "Unknown"

\* ---------------------------------------------------------------------
\* The step is the autoSetupDefaultPlayer() call of doIngest: the call
\* that follows a run which returned with ingested > 0.
AutoSetupAfterRun ==
  /\ lastOp'.op = "autoSetupDefaultPlayer"
  /\ lastOp.op \in {"ingestFile", "finishIngest"}
  /\ outcome = "returned"
  /\ ingested > 0

\* C16: once some player has been given a custom name or colour, even if
\* it was cleared since, the autoSetupDefaultPlayer() call that follows an
\* ingestion leaves every player's name, colour and main designation as
\* they were.
C16_AutoSetupOnlyIfNeverCustomized ==
  [][(AutoSetupAfterRun /\ everCustomized) =>
       db'.player_settings = db.player_settings]_vars

\* ---------------------------------------------------------------------
\* C17: when clearDatabase has completed every table is empty and the
\* snapshot is that empty store, and an ingestFiles run that starts next
\* takes every .lua file of the source as new.
C17_ResetEmptiesEverything ==
  [][/\ (lastOp'.op = "clearDatabase" /\ lastOp'.arg = "completed") =>
          /\ \A t \in {"games", "players", "game_players", "properties",
                       "scores", "player_settings", "app_settings"} :
               db'[t] = {}
          /\ persisted' = db'
          /\ committed' = db'
     /\ (lastOp.op = "clearDatabase" /\ lastOp.arg = "completed"
           /\ lastOp'.op = "startIngest") =>
          /\ newFiles' = collectLuaFiles(source)
          /\ existing' = {}]_vars

\* clearDatabase has completed after a run over a source with files and
\* two saveAppSetting calls.
C17_Witness ==
  /\ lastOp.op = "clearDatabase" /\ lastOp.arg = "completed"
  /\ runs > 0 /\ total > 0
  /\ settingsCalls > 1
  /\ db = EmptyDb

\* ---------------------------------------------------------------------
\* C18: initDatabase ends with a store that has every table of the schema
\* whatever is stored (nothing, a valid snapshot, a corrupt one), and when
\* the stored snapshot is corrupt the store is empty.
C18_CorruptSnapshotGivesEmptyStore ==
  lastOp.op = "reload" =>
    /\ DOMAIN db = DOMAIN EmptyDb
    /\ lastOp.arg \in {"garbage", "damaged"} => db = EmptyDb

\* ---------------------------------------------------------------------
\* Every .lua file of the source has its name on a row of games.
AllRecorded ==
  \A k \in 1..Len(source) :
    EndsWithLua(source[k].name) =>
      \E g \in db.games : g.filename = source[k].name

\* C19: an ingestFiles call made when every candidate filename is already
\* recorded reports progress (0, 0) and returns ingested 0, errors 0 and
\* total = the number of .lua files, with no transaction opened, no table
\* changed (so no name backfill) and no snapshot written.
C19_NothingNewShortCircuit ==
  [][(lastOp'.op = "startIngest" /\ AllRecorded) =>
       /\ progress' = <<0, 0>>
       /\ outcome' = "returned" /\ pc' = "idle"
       /\ ingested' = 0 /\ errors' = 0
       /\ total' = Cardinality({k \in 1..Len(source) :
                                  EndsWithLua(source[k].name)})
       /\ inTx' = FALSE
       /\ db' = db /\ committed' = committed /\ persisted' = persisted]_vars

\* A call has returned at once on a store that holds every file of a
\* non-empty source, with a placeholder name the backfill would rewrite
\* and a snapshot that is behind the store.
C19_Witness ==
  /\ lastOp.op = "startIngest" /\ outcome = "returned"
  /\ total > 0 /\ AllRecorded
  /\ progress = <<0, 0>>
  /\ ~NamesBackfilled(db)
  /\ persisted # db

\* ---------------------------------------------------------------------
\* The run is suspended at the yield that follows a batch.
AtBatchYield ==
  pc = "loop" /\ i > 0 /\ i % INGEST_BATCH_SIZE = 0
              /\ progress = <<i, Len(newFiles)>>

\* C20: while an ingestFiles run is under way and not at the yield that
\* follows a batch, the only code that runs is the run itself (the page
\* being closed aside): no settings save, query or reset runs while the
\* transaction of a batch is open.
C20_YieldIsOnlySuspensionPoint ==
  [][(pc = "loop" /\ inTx /\ ~AtBatchYield /\ lastOp'.op # "reload") =>
       lastOp'.op \in {"ingestFile", "finishIngest"}]_vars

\* ---------------------------------------------------------------------
\* What a file made of #row lines declares: the raw parentId and childIds
\* fields of a line, the first and the last line that declares an id (the
\* last one sets the property's fields).
RawParent(line) == IF Len(line) > 10 THEN line[11] ELSE "nil"
RawChildren(line) == IF Len(line) > 12 THEN line[13] ELSE "nil"
OnlyRows(ls) == \A k \in 1..Len(ls) : ls[k][1] = "#row" /\ Len(ls[k]) > 1
DeclaredIds(ls) == {ls[k][2] : k \in 1..Len(ls)}
FirstDecl(ls, id) ==
  CHOOSE k \in 1..Len(ls) :
    ls[k][2] = id /\ \A j \in 1..Len(ls) : ls[j][2] = id => k <= j
LastDecl(ls, id) ==
  CHOOSE k \in 1..Len(ls) :
    ls[k][2] = id /\ \A j \in 1..Len(ls) : ls[j][2] = id => j <= k
DeclaredChildren(ls, id) ==
  IF RawChildren(ls[LastDecl(ls, id)]) = "nil" THEN {}
  ELSE Range(SplitColon(RawChildren(ls[LastDecl(ls, id)])))
ListLength(ls, id) == Len(SplitColon(RawChildren(ls[LastDecl(ls, id)])))

\* The properties that list c among their children.
Candidates(ls, c) == {p \in DeclaredIds(ls) : c \in DeclaredChildren(ls, p)}

\* p has the shortest list among the candidates of c and, among those
\* with a list as short, is declared first.
WinsOrphan(ls, p, c) ==
  /\ p \in Candidates(ls, c)
  /\ \A q \in Candidates(ls, c) :
       \/ ListLength(ls, p) < ListLength(ls, q)
       \/ /\ ListLength(ls, p) = ListLength(ls, q)
          /\ FirstDecl(ls, p) <= FirstDecl(ls, q)

\* C21: in the draft of a file made of #row lines, a property declared
\* with a raw parentId keeps it, and a property declared without one that
\* several properties list as a child has as parent the candidate with the
\* shortest childIds list, the first declared among equally short ones.
C21_OrphanLinking ==
  (lastOp.op = "parse" /\ OnlyRows(lastOp.arg)) =>
    \A k \in 1..Len(lastOp.result.propertyMetadata) :
      LET m == lastOp.result.propertyMetadata[k]
          raw == RawParent(lastOp.arg[LastDecl(lastOp.arg, m.id)])
      IN /\ raw # "nil" => m.parentId = raw
         /\ (raw = "nil" /\ Candidates(lastOp.arg, m.id) # {}) =>
              WinsOrphan(lastOp.arg, m.parentId, m.id)

\* The visibility flag and the plugin id a #row line declares.
RawVisible(line) == IF Len(line) > 7 THEN line[8] # "false" ELSE TRUE
RawPlugin(line) == IF Len(line) > 9 THEN line[10] ELSE ""

\* The property is parentless once the childIds lists have been applied:
\* it declares no parent and no property lists it as a child.
StillParentless(ls, id) ==
  /\ RawParent(ls[LastDecl(ls, id)]) = "nil"
  /\ Candidates(ls, id) = {}

\* The visible, still parentless properties of plugin g.
PluginOwners(ls, g) ==
  {q \in DeclaredIds(ls) :
     /\ RawPlugin(ls[LastDecl(ls, q)]) = g
     /\ RawVisible(ls[LastDecl(ls, q)])
     /\ StillParentless(ls, q)}

\* C22: in the draft of a file made of #row lines, an invisible property
\* of plugin g that no childIds list gave a parent has parent q when q is
\* the only visible, still parentless property of plugin g, and has no
\* parent when there is no such property or more than one.
C22_PluginFallback ==
  (lastOp.op = "parse" /\ OnlyRows(lastOp.arg)) =>
    \A k \in 1..Len(lastOp.result.propertyMetadata) :
      LET m == lastOp.result.propertyMetadata[k]
          line == lastOp.arg[LastDecl(lastOp.arg, m.id)]
          owners == PluginOwners(lastOp.arg, RawPlugin(line))
      IN (/\ ~RawVisible(line)
          /\ RawPlugin(line) # ""
          /\ StillParentless(lastOp.arg, m.id)) =>
           IF Cardinality(owners) = 1
           THEN m.parentId \in owners
           ELSE m.parentId = Null

\* The ids the #players block of the file registers.
ListedIds(f) == {ParsedFile(f).players[k][2] :
                   k \in 1..Len(ParsedFile(f).players)}

\* The game has a roster entry for p marked unregistered.
Unregistered(g, p) ==
  \E r \in db.game_players :
    /\ r.game_id = g.id /\ r.player_id = p
    /\ r.slot = -1 /\ r.name = "Unknown" /\ r.quitter = 1

\* C23: once a file is ingested, a participant with a UUID-shaped id that
\* has scores in its game has an unregistered roster entry (slot -1, name
\* 'Unknown', quitter) exactly when the #players block of the file does
\* not list the id, and a listed participant is not stored as a quitter,
\* whether the #players block stands before or after the value lines.
C23_UnregisteredIffNotListed ==
  (lastOp.op = "ingestFile" /\ lastOp.arg = "ingested") =>
    \A g \in db.games : \A p \in {"u1", "u2"} :
      (\E s \in db.scores : s.game_id = g.id /\ s.player_id = p) =>
        /\ Unregistered(g, p) <=> p \notin ListedIds(source[1])
        /\ p \in ListedIds(source[1]) =>
             ~\E r \in db.game_players :
                r.game_id = g.id /\ r.player_id = p /\ r.quitter = 1

\* The line ends a block of value lines: it is empty or a directive.
EndsBlock(line) == line = <<"">> \/ StartsWithHash(line[1])

\* The number of lines that follow line k before the next line that ends
\* a block.
ValueRun(ls, k) ==
  Cardinality({j \in (k + 1)..Len(ls) :
                 \A m \in (k + 1)..j : ~EndsBlock(ls[m])})

\* The decimal numeral of a count.
Numeral(n) == CHOOSE s \in {"0", "1", "2", "3", "4", "5"} : NumTab[s] = n

\* The file with every #row line that declares more value lines than
\* follow it declaring the number that follow it.
DeclaringActualCounts(ls) ==
  [k \in 1..Len(ls) |->
     IF /\ ls[k][1] = "#row"
        /\ Len(ls[k]) > 3
        /\ ParseInt(ls[k][4]) # NaN
        /\ ValueRun(ls, k) < ParseInt(ls[k][4])
     THEN [ls[k] EXCEPT ![4] = Numeral(ValueRun(ls, k))]
     ELSE ls[k]]

\* Line k is a #row line followed by fewer value lines than it declares
\* and then by a directive.
TruncatedAt(ls, k) ==
  /\ ls[k][1] = "#row" /\ Len(ls[k]) > 3
  /\ ValueRun(ls, k) < ParseInt(ls[k][4])
  /\ k + ValueRun(ls, k) < Len(ls)
  /\ StartsWithHash(ls[k + ValueRun(ls, k) + 1][1])

\* C24: a #row block followed by fewer value lines than it declares ends
\* at the next directive, which is dispatched once, and no line is skipped
\* or read twice: the draft of the file is the draft of the same file with
\* the #row lines declaring the number of value lines that follow them.
C24_TruncatedBlockEndsAtDirective ==
  lastOp.op = "parse" =>
    lastOp.result =
      parseLuaContent(source[1].name, DeclaringActualCounts(lastOp.arg))

\* A block of dmg that declares two value lines and has one is followed
\* by the block of kills, and the draft has the scores of both blocks.
C24_Witness ==
  /\ lastOp.op = "parse"
  /\ Len(lastOp.arg) = 4
  /\ TruncatedAt(lastOp.arg, 1)
  /\ lastOp.arg[3][1] = "#row"
  /\ lastOp.result.scores = << <<"dmg", "u1", 5>>, <<"kills", "u2", 7>> >>

\* The directive line has too few fields: a #mission line without a
\* difficulty, a #players line without a count, a #group or a #row line
\* without an id.
TooFewFields(line) ==
  \/ line[1] = "#mission" /\ Len(line) < 3
  \/ line[1] \in {"#players", "#group", "#row"} /\ Len(line) < 2

\* The file with an empty line in the place of every directive line that
\* has too few fields.
WithoutShortDirectives(ls) ==
  [k \in 1..Len(ls) |-> IF TooFewFields(ls[k]) THEN <<"">> ELSE ls[k]]

\* No line of the file opens a roster block.
NoRosterBlock(ls) ==
  \A k \in 1..Len(ls) : ls[k][1] = "#players" => Len(ls[k]) < 2

\* C25: a directive line with too few fields is skipped as a whole: it
\* changes neither the draft nor the current category, and parsing goes
\* on with the next line, so the draft of the file is the draft of the
\* same file with an empty line in the place of each such directive.
C25_ShortDirectiveSkipped ==
  (lastOp.op = "parse" /\ NoRosterBlock(lastOp.arg)) =>
    lastOp.result =
      parseLuaContent(source[1].name, WithoutShortDirectives(lastOp.arg))

\* The file with every #players line that declares more roster lines than
\* follow it before the next directive declaring the number that follow.
DeclaringActualRoster(ls) ==
  [k \in 1..Len(ls) |->
     IF /\ ls[k][1] = "#players"
        /\ Len(ls[k]) > 1
        /\ ParseInt(ls[k][2]) # NaN
        /\ ValueRun(ls, k) < ParseInt(ls[k][2])
     THEN [ls[k] EXCEPT ![2] = Numeral(ValueRun(ls, k))]
     ELSE ls[k]]

\* C30: when a #players line declares more roster lines than follow it,
\* the directive lines after the roster are dispatched as directives and
\* are not recorded as roster entries or registered ids: the draft of the
\* file is the draft of the same file with the #players lines declaring
\* the number of roster lines that follow them.
C30_OverDeclaredRosterStopsAtDirective ==
  lastOp.op = "parse" =>
    lastOp.result =
      parseLuaContent(source[1].name, DeclaringActualRoster(lastOp.arg))

\* ingestFiles has just returned its report.
JustReturned ==
  /\ outcome = "returned"
  /\ pc = "idle"
  /\ lastOp.op \in {"startIngest", "ingestFile", "finishIngest"}

\* The files the run read and counted as errors.
ErroredFiles == Range(readLog) \ runCounted

\* The Game row of the name of file k is the row of another file of the
\* run, one that was counted as ingested.
RowOfIngestedFile(k) ==
  \E j \in runCounted : source[j].name = source[k].name

\* C26: when ingestFiles returns, ingested + errors is the number of new
\* files of the run, the run added exactly `ingested` Game rows, and no
\* file counted as an error has a Game row.
C26_ReportMatchesStore ==
  JustReturned =>
    /\ ingested + errors = Len(newFiles)
    /\ Cardinality({g \in db.games : g.filename \notin existing}) = ingested
    /\ \A k \in ErroredFiles :
         (\E g \in db.games : g.filename = source[k].name) =>
           RowOfIngestedFile(k)

\* C27: in every state of the store, every Score row refers to a stored
\* Game, to a stored Player that has a RosterEntry for that game, and to a
\* stored PropertyMeta row, and every RosterEntry refers to a stored Game
\* and a stored Player.
C27_ReferentialIntegrity ==
  /\ \A s \in db.scores :
       /\ \E g \in db.games : g.id = s.game_id
       /\ \E p \in db.players : p.id = s.player_id
       /\ \E r \in db.game_players :
            r.game_id = s.game_id /\ r.player_id = s.player_id
       /\ \E m \in db.properties : m.id = s.property_id
  /\ \A r \in db.game_players :
       /\ \E g \in db.games : g.id = r.game_id
       /\ \E p \in db.players : p.id = r.player_id

\* The store and the count of ingested files after the loop of one run
\* that nothing interrupts has handled files[k..], starting from dbx.
RECURSIVE LoopFrom(_, _, _, _, _)
LoopFrom(dbx, ing, src, files, k) ==
  IF k > Len(files) THEN [db |-> dbx, ingested |-> ing]
  ELSE LET r == FileOutcome(dbx, src[files[k]])
       IN LoopFrom(r.db, ing + (IF r.kind = "ingested" THEN 1 ELSE 0),
                   src, files, k + 1)

\* The stores one uninterrupted run over the source can leave, starting
\* from the empty store.
UninterruptedStores(src) ==
  LET r == LoopFrom(EmptyDb, 0, src,
                    NewFilesOf(src, collectLuaFiles(src), {}), 1)
  IN IF r.ingested > 0
     THEN {[r.db EXCEPT !.game_players = t] :
             t \in BackfillChoices(r.db.game_players)}
     ELSE {r.db}

\* The filename of the game with the id.
FilenameOfGame(d, id) == (CHOOSE g \in d.games : g.id = id).filename

\* The Game rows by filename, the Score rows and the RosterEntry rows of
\* a store, with the filename of the game in the place of its id.
ContentByFilename(d) ==
  [games |-> {g.filename : g \in d.games},
   scores |-> {<<FilenameOfGame(d, s.game_id), s.player_id, s.property_id,
                 s.value>> : s \in d.scores},
   roster |-> {<<FilenameOfGame(d, r.game_id), r.player_id, r.slot, r.name,
                 r.quitter>> : r \in d.game_players}]

\* C28: when a run is aborted and the store is reloaded from the last
\* snapshot, a later run over the same source that returns leaves the
\* Game rows (by filename), the Score rows and the RosterEntry rows, with
\* their names, that one uninterrupted run would have left.
C28_RecoveryConverges ==
  (JustReturned /\ reloads > 0) =>
    \E u \in UninterruptedStores(source) :
      ContentByFilename(db) = ContentByFilename(u)

\* The number of times the result of getProperties lists the property.
TimesListed(res, id) ==
  Cardinality({<<g, k>> \in (1..Len(res)) \X (1..Cardinality(db.properties)) :
                 k <= Len(res[g].properties) /\ res[g].properties[k].id = id})

\* C29: getProperties returns, and its result lists every stored
\* PropertyMeta row exactly once, also when the parentId of a row names a
\* property that is not stored or the parent links form a cycle.
C29_EveryPropertyListedOnce ==
  lastOp.op = "getProperties" =>
    \A m \in db.properties : TimesListed(lastOp.result, m.id) = 1

====
